---- MODULE Spec2Model ----
(***************************************************************************)
(* Hotel reservation system (A01797560_A6.2): domain models, JSON-backed   *)
(* repositories and the service layer that enforces availability,          *)
(* capacity and deletion rules.                                            *)
(*                                                                         *)
(* Representation.                                                         *)
(*   Optional values: None is <<>>, a present value x is <<x>>.            *)
(*   Dates are day numbers; the ISO text of a date d is <<"ISO", d>>.      *)
(*   Strings are TLA+ strings; str.strip() is modelled on the strings the  *)
(*   model uses.  A rating is counted in tenths (0..50 for 0.0..5.0).      *)
(*   A collection file is a record: its kind says what is found at the    *)
(*   path (nothing, an array of dicts, or content that cannot be read     *)
(*   as one) and its items are the dicts of the array.  The float inf     *)
(*   that json.load gives for the token Infinity is the number Infinity,  *)
(*   larger than every integer the model uses.                            *)
(***************************************************************************)
EXTENDS Integers, Sequences, FiniteSets, TLC

VARIABLES hotels, customers, reservations, today, uuid_count, streak, pool,
          calls, log

vars ==
    <<hotels, customers, reservations, today, uuid_count, streak, pool, calls,
      log>>

----------------------------------------------------------------------------
(* Bounds of the model *)

MaxDate == 2

MaxRooms == 2

MaxUuid == 1

None == <<>>

Some(x) == <<x>>

Dates == 0..MaxDate

(* The IDs a run draws its arguments from, by pool: "hotels" is two       *)
(* hotels and one customer, "customers" one hotel and two customers,     *)
(* "mixed" one hotel and one customer, "queue" one hotel and three       *)
(* customers.                                                            *)
HotelIds == IF pool = "hotels" THEN {"H1", "H2"} ELSE {"H1"}

CustomerIds ==
    CASE pool \in {"hotels", "mixed"} -> {"C1"}
      [] pool = "customers" -> {"C1", "C2"}
      [] OTHER -> {"C1", "C2", "C3"}

CallerReservationIds == {"R1"}

UuidNames == <<"RES-1", "RES-2", "RES-3", "RES-4">>

----------------------------------------------------------------------------
(* models.py *)

strip(s) == CASE s = " " -> ""
              [] s = " Av 1 " -> "Av 1"
              [] OTHER -> s

_validate_non_empty(value) == strip(value) # ""

_validate_positive_int(value) == value > 0

_validate_email(value) == value \in {"ana@example.com", "luis@example.com"}

_date_to_iso(d) == <<"ISO", d>>

_date_from_iso(value) == value[2]

generate_id(prefix, n) == UuidNames[n + 1]

Infinity == 1000

(* int(value): a float inf cannot be converted *)
int_result(value) == IF value = Infinity THEN "OverflowError" ELSE "ok"

Hotel_post_init(h) ==
    /\ _validate_non_empty(h.hotel_id)
    /\ _validate_non_empty(h.name)
    /\ _validate_non_empty(h.city)
    /\ _validate_positive_int(h.total_rooms)
    /\ (h.rating # None => (0 <= h.rating[1] /\ h.rating[1] <= 50))

Hotel_to_dict(h) == h

Hotel_from_dict_fields(data) ==
    [hotel_id |-> data.hotel_id,
     name |-> data.name,
     city |-> data.city,
     total_rooms |-> data.total_rooms,
     address |-> IF "address" \in DOMAIN data /\ data.address # None
                    /\ data.address # Some("")
                 THEN Some(strip(data.address[1])) ELSE None,
     rating |-> IF "rating" \in DOMAIN data THEN data.rating ELSE None]

(* "ok" or the exception from_dict raises *)
Hotel_from_dict_result(data) ==
    IF ~({"hotel_id", "name", "city", "total_rooms"} \subseteq DOMAIN data)
    THEN "ValueError"
    ELSE IF int_result(data.total_rooms) # "ok"
    THEN int_result(data.total_rooms)
    ELSE IF ~Hotel_post_init(Hotel_from_dict_fields(data)) THEN "ValueError"
    ELSE "ok"

Hotel_from_dict_ok(data) == Hotel_from_dict_result(data) = "ok"

Hotel_from_dict(data) == Hotel_from_dict_fields(data)

Customer_post_init(c) ==
    /\ _validate_non_empty(c.customer_id)
    /\ _validate_non_empty(c.full_name)
    /\ _validate_email(c.email)

Customer_to_dict(c) == c

Customer_from_dict_fields(data) ==
    [customer_id |-> data.customer_id,
     full_name |-> data.full_name,
     email |-> data.email,
     phone |-> IF "phone" \in DOMAIN data /\ data.phone # None
                  /\ data.phone # Some("")
               THEN data.phone ELSE None]

Customer_from_dict_result(data) ==
    IF ~({"customer_id", "full_name", "email"} \subseteq DOMAIN data)
    THEN "ValueError"
    ELSE IF ~Customer_post_init(Customer_from_dict_fields(data))
    THEN "ValueError"
    ELSE "ok"

Customer_from_dict_ok(data) == Customer_from_dict_result(data) = "ok"

Customer_from_dict(data) == Customer_from_dict_fields(data)

Reservation_post_init(r) ==
    /\ _validate_non_empty(r.reservation_id)
    /\ _validate_non_empty(r.hotel_id)
    /\ _validate_non_empty(r.customer_id)
    /\ r.check_in < r.check_out
    /\ (r.room_number # None => _validate_positive_int(r.room_number[1]))
    /\ r.status \in {"ACTIVE", "CANCELED"}

Reservation_to_dict(r) ==
    [r EXCEPT !.check_in = _date_to_iso(r.check_in),
              !.check_out = _date_to_iso(r.check_out)]

Reservation_from_dict_fields(data) ==
    [reservation_id |-> data.reservation_id,
     hotel_id |-> data.hotel_id,
     customer_id |-> data.customer_id,
     check_in |-> _date_from_iso(data.check_in),
     check_out |-> _date_from_iso(data.check_out),
     room_number |-> IF "room_number" \in DOMAIN data
                     THEN data.room_number ELSE None,
     status |-> IF "status" \in DOMAIN data THEN data.status ELSE "ACTIVE"]

Reservation_from_dict_result(data) ==
    IF ~({"reservation_id", "hotel_id", "customer_id", "check_in",
          "check_out"} \subseteq DOMAIN data)
    THEN "ValueError"
    ELSE IF "room_number" \in DOMAIN data /\ data.room_number # None
            /\ int_result(data.room_number[1]) # "ok"
    THEN int_result(data.room_number[1])
    ELSE IF ~Reservation_post_init(Reservation_from_dict_fields(data))
    THEN "ValueError"
    ELSE "ok"

Reservation_from_dict_ok(data) == Reservation_from_dict_result(data) = "ok"

Reservation_from_dict(data) == Reservation_from_dict_fields(data)

----------------------------------------------------------------------------
(* app/repository.py *)

(* JsonStore.  What is found at a path. *)
File(kind) == [kind |-> kind, items |-> <<>>]

Missing == File("missing")

ArrayFile(items) == [kind |-> "array", items |-> items]

(* "ok" or the exception load_list lets through: JSONDecodeError and      *)
(* OSError are caught, the UnicodeDecodeError of bytes that are not       *)
(* UTF-8 and the RecursionError of too deep a nesting are not             *)
load_list_result(file) ==
    CASE file.kind = "undecodable" -> "UnicodeDecodeError"
      [] file.kind = "too_deep" -> "RecursionError"
      [] OTHER -> "ok"

load_list(file) == IF file.kind = "array" THEN file.items ELSE <<>>

(* Where writing fails: nowhere, in os.makedirs, in open, or in json.dump *)
Faults == {"none", "makedirs", "open", "write"}

save_list_result(fault) ==
    CASE fault = "makedirs" -> "OSError"
      [] fault \in {"open", "write"} -> "PersistenceError"
      [] OTHER -> "ok"

(* what is at the path afterwards; a write that fails leaves the file      *)
(* that open() has truncated, with whatever part was written               *)
save_list(file, items, fault) ==
    CASE fault = "none" -> ArrayFile(items)
      [] fault = "write" -> File("malformed")
      [] OTHER -> file

(* A repository is named by the file it keeps and the attribute that      *)
(* holds the ID; to_dict and from_dict are those of its entity class.     *)
HotelRepository == [path |-> "hotels", id_attr |-> "hotel_id"]

CustomerRepository == [path |-> "customers", id_attr |-> "customer_id"]

ReservationRepository ==
    [path |-> "reservations", id_attr |-> "reservation_id"]

_to_dict(repo, entity) ==
    CASE repo.path = "hotels" -> Hotel_to_dict(entity)
      [] repo.path = "customers" -> Customer_to_dict(entity)
      [] OTHER -> Reservation_to_dict(entity)

_from_dict_ok(repo, raw) ==
    CASE repo.path = "hotels" -> Hotel_from_dict_ok(raw)
      [] repo.path = "customers" -> Customer_from_dict_ok(raw)
      [] OTHER -> Reservation_from_dict_ok(raw)

_from_dict(repo, raw) ==
    CASE repo.path = "hotels" -> Hotel_from_dict(raw)
      [] repo.path = "customers" -> Customer_from_dict(raw)
      [] OTHER -> Reservation_from_dict(raw)

_from_dict_result(repo, raw) ==
    CASE repo.path = "hotels" -> Hotel_from_dict_result(raw)
      [] repo.path = "customers" -> Customer_from_dict_result(raw)
      [] OTHER -> Reservation_from_dict_result(raw)

(* "ok" or the exception _load_all lets through: ValueError and TypeError *)
(* are caught, record by record                                            *)
_load_all_result(repo, raw_list) ==
    LET uncaught == {i \in 1..Len(raw_list) :
                        _from_dict_result(repo, raw_list[i])
                            \notin {"ok", "ValueError", "TypeError"}}
    IN IF uncaught = {} THEN "ok"
       ELSE _from_dict_result(repo,
                raw_list[CHOOSE i \in uncaught : \A j \in uncaught : i <= j])

(* records that from_dict rejects are skipped *)
_load_all(repo, raw_list) ==
    LET valid(raw) == _from_dict_ok(repo, raw)
        kept == SelectSeq(raw_list, valid)
    IN [i \in 1..Len(kept) |-> _from_dict(repo, kept[i])]

_save_all(repo, items) ==
    [i \in 1..Len(items) |-> _to_dict(repo, items[i])]

(* faulty variant: no item is ever found *)
_find_index_never(repo, items, entity_id) == 0 - 1

(* index of the first item with the ID (counted from 1), or -1 *)
_find_index(repo, items, entity_id) ==
    LET hits == {idx \in 1..Len(items) :
                    items[idx][repo.id_attr] = entity_id}
    IN IF hits = {} THEN -1
       ELSE CHOOSE idx \in hits : \A other \in hits : idx <= other

(* A service object and what it can reach: the three collection files,   *)
(* the clock and the source of generated IDs.                            *)
World ==
    [hotels |-> hotels, customers |-> customers,
     reservations |-> reservations, today |-> today,
     uuid_count |-> uuid_count]

list_all_result(self, repo) ==
    IF load_list_result(self[repo.path]) # "ok"
    THEN load_list_result(self[repo.path])
    ELSE _load_all_result(repo, load_list(self[repo.path]))

list_all(self, repo) == _load_all(repo, load_list(self[repo.path]))

get_by_id(self, repo, entity_id) ==
    LET items == list_all(self, repo)
        idx == _find_index(repo, items, entity_id)
    IN IF idx = -1 THEN None ELSE Some(items[idx])

(* faulty variant: the entity is put into the array as it is in the file, *)
(* and the other records are written back as they were read               *)
upsert_patching_file(self, repo, entity) ==
    LET raw_list == load_list(self[repo.path])
        hits == {i \in 1..Len(raw_list) :
                    raw_list[i][repo.id_attr] = entity[repo.id_attr]}
    IN [self EXCEPT ![repo.path] =
           save_list(@, IF hits = {}
                        THEN Append(raw_list, _to_dict(repo, entity))
                        ELSE [raw_list EXCEPT ![CHOOSE i \in hits : TRUE] =
                                 _to_dict(repo, entity)],
                     "none")]

upsert(self, repo, entity) ==
    LET items == list_all(self, repo)
        idx == _find_index(repo, items, entity[repo.id_attr])
    IN [self EXCEPT ![repo.path] =
           save_list(@, _save_all(repo,
                            IF idx >= 1 THEN [items EXCEPT ![idx] = entity]
                            ELSE Append(items, entity)), "none")]

(* upsert with a write that may fail: "ok" or the exception raised, and    *)
(* what is left behind                                                     *)
upsert_result(self, repo, entity, fault) ==
    IF list_all_result(self, repo) # "ok" THEN list_all_result(self, repo)
    ELSE save_list_result(fault)

upsert_world(self, repo, entity, fault) ==
    IF list_all_result(self, repo) # "ok" THEN self
    ELSE IF fault = "none" THEN upsert(self, repo, entity)
    ELSE [self EXCEPT ![repo.path] = save_list(@, <<>>, fault)]

(* faulty variant: the list is saved as it was loaded *)
delete_nothing_removed(self, repo, entity_id) ==
    LET items == list_all(self, repo)
        idx == _find_index(repo, items, entity_id)
    IN IF idx = -1 THEN self
       ELSE [self EXCEPT ![repo.path] =
                save_list(@, _save_all(repo, items), "none")]

delete(self, repo, entity_id) ==
    LET items == list_all(self, repo)
        idx == _find_index(repo, items, entity_id)
    IN IF idx = -1 THEN self
       ELSE [self EXCEPT ![repo.path] =
                save_list(@, _save_all(repo, SubSeq(items, 1, idx - 1)
                                 \o SubSeq(items, idx + 1, Len(items))),
                          "none")]

(* faulty variant: only the last item is compared with the ID *)
delete_return_last_only(self, repo, entity_id) ==
    LET items == list_all(self, repo)
    IN items # <<>> /\ items[Len(items)][repo.id_attr] = entity_id

(* what delete returns: whether an item with the ID was there *)
delete_return(self, repo, entity_id) ==
    _find_index(repo, list_all(self, repo), entity_id) # -1

(* delete with a write that may fail; nothing is written when the ID is   *)
(* not there                                                               *)
delete_result(self, repo, entity_id, fault) ==
    IF list_all_result(self, repo) # "ok" THEN list_all_result(self, repo)
    ELSE IF ~delete_return(self, repo, entity_id) THEN "ok"
    ELSE save_list_result(fault)

delete_world(self, repo, entity_id, fault) ==
    IF list_all_result(self, repo) # "ok" THEN self
    ELSE IF fault = "none" \/ ~delete_return(self, repo, entity_id)
    THEN delete(self, repo, entity_id)
    ELSE [self EXCEPT ![repo.path] = save_list(@, <<>>, fault)]

(* faulty variant: the hotel filter is forgotten *)
list_by_hotel_unfiltered(self, hotel_id) ==
    list_all(self, ReservationRepository)

list_by_hotel(self, hotel_id) ==
    LET same_hotel(r) == r.hotel_id = hotel_id
    IN SelectSeq(list_all(self, ReservationRepository), same_hotel)

list_by_customer(self, customer_id) ==
    LET same_customer(r) == r.customer_id = customer_id
    IN SelectSeq(list_all(self, ReservationRepository), same_customer)

----------------------------------------------------------------------------
(* app/services.py: internal utilities *)

_validate_dates(check_in, check_out) == ~(check_in >= check_out)

(* faulty variant: an existing range counts only if it starts inside     *)
(* the candidate                                                         *)
_overlaps_start_inside(a_start, a_end, b_start, b_end) ==
    b_start <= a_start /\ a_start < b_end

(* faulty variant: the check-out day of the first range counts as         *)
(* occupied, that of the second does not                                  *)
_overlaps_first_closed(a_start, a_end, b_start, b_end) ==
    ~(a_end < b_start \/ a_start >= b_end)

(* faulty variant: the check-out day counts as occupied *)
_overlaps_closed(a_start, a_end, b_start, b_end) ==
    ~(a_end < b_start \/ a_start > b_end)

_overlaps(a_start, a_end, b_start, b_end) ==
    ~(a_end <= b_start \/ a_start >= b_end)

(* faulty variant: the status filter is forgotten *)
_active_reservations_unfiltered(rs) == rs

_active_reservations(rs) ==
    LET is_active(r) == r.status = "ACTIVE"
    IN SelectSeq(rs, is_active)

_active_overlaps_for_hotel(rs, check_in, check_out) ==
    LET hit(r) == _overlaps(r.check_in, r.check_out, check_in, check_out)
    IN SelectSeq(_active_reservations(rs), hit)

(* faulty variant: on one date, arrivals are sorted before departures *)
event_le_arrivals_first(a, b) ==
    a[1] < b[1] \/ (a[1] = b[1] /\ a[2] >= b[2])

(* list.sort() on (date, delta) tuples: lexicographic, ascending *)
event_le(a, b) == a[1] < b[1] \/ (a[1] = b[1] /\ a[2] <= b[2])

RECURSIVE insert_sorted(_, _)
insert_sorted(e, s) ==
    IF s = <<>> THEN <<e>>
    ELSE IF event_le(e, Head(s)) THEN <<e>> \o s
    ELSE <<Head(s)>> \o insert_sorted(e, Tail(s))

RECURSIVE sort_events(_)
sort_events(events) ==
    IF events = <<>> THEN <<>>
    ELSE insert_sorted(Head(events), sort_events(Tail(events)))

RECURSIVE collect_events(_)
collect_events(rs) ==
    IF rs = <<>> THEN <<>>
    ELSE <<<<Head(rs).check_in, 1>>, <<Head(rs).check_out, -1>>>>
         \o collect_events(Tail(rs))

RECURSIVE sweep(_, _, _)
sweep(events, current, peak) ==
    IF events = <<>> THEN peak
    ELSE LET now == current + Head(events)[2]
         IN sweep(Tail(events), now, IF now > peak THEN now ELSE peak)

(* faulty variant: no sweep, every ACTIVE reservation counts as concurrent *)
_max_concurrent_active_all_at_once(rs) == Len(_active_reservations(rs))

_max_concurrent_active(rs) ==
    sweep(sort_events(collect_events(_active_reservations(rs))), 0, 0)

----------------------------------------------------------------------------
(* app/services.py: the service calls, as functions of the service        *)
(* object.  X_result is "ok" for a normal return and otherwise names the  *)
(* exception raised; X_return is the value returned; X_world is what the  *)
(* call leaves behind (a call that raises writes nothing).                *)

IsBusinessRuleError(e) ==
    e \in {"BusinessRuleError", "NotFoundError", "DuplicateIdError",
           "ConflictError"}

get_hotel(self, hotel_id) ==
    get_by_id(self, HotelRepository, hotel_id)

get_customer(self, customer_id) ==
    get_by_id(self, CustomerRepository, customer_id)

get_reservation(self, reservation_id) ==
    get_by_id(self, ReservationRepository, reservation_id)

new_hotel(hotel_id, name, city, total_rooms, address, rating) ==
    [hotel_id |-> hotel_id, name |-> name, city |-> city,
     total_rooms |-> total_rooms, address |-> address, rating |-> rating]

(* faulty variant: the new hotel is built before the ID is looked up *)
create_hotel_result_validates_first(self, hotel_id, name, city, total_rooms, address, rating) ==
    IF ~Hotel_post_init(new_hotel(hotel_id, name, city, total_rooms,
                                  address, rating))
    THEN "ValueError"
    ELSE IF get_hotel(self, hotel_id) # None THEN "DuplicateIdError"
    ELSE "ok"

create_hotel_result(self, hotel_id, name, city, total_rooms, address, rating) ==
    IF get_hotel(self, hotel_id) # None THEN "DuplicateIdError"
    ELSE IF ~Hotel_post_init(new_hotel(hotel_id, name, city, total_rooms,
                                       address, rating))
    THEN "ValueError"
    ELSE "ok"

create_hotel_world(self, hotel_id, name, city, total_rooms, address, rating) ==
    IF create_hotel_result(self, hotel_id, name, city, total_rooms,
                           address, rating) = "ok"
    THEN upsert(self, HotelRepository,
                new_hotel(hotel_id, name, city, total_rooms, address,
                          rating))
    ELSE self

updated_hotel(hotel, name, city, total_rooms, address, rating) ==
    [hotel_id |-> hotel.hotel_id,
     name |-> IF name = None THEN hotel.name ELSE name[1],
     city |-> IF city = None THEN hotel.city ELSE city[1],
     total_rooms |-> IF total_rooms = None THEN hotel.total_rooms
                     ELSE total_rooms[1],
     address |-> IF address = None THEN hotel.address ELSE address,
     rating |-> IF rating = None THEN hotel.rating ELSE rating]

(* faulty variant: a total_rooms equal to the peak is refused too *)
update_hotel_result_above_peak(self, hotel_id, name, city, total_rooms, address, rating) ==
    LET hotel == get_hotel(self, hotel_id)
        peak == _max_concurrent_active(list_by_hotel(self, hotel_id))
        updated == updated_hotel(hotel[1], name, city, total_rooms,
                                 address, rating)
    IN IF hotel = None THEN "NotFoundError"
       ELSE IF total_rooms # None /\ total_rooms[1] <= 0
       THEN "ValidationError"
       ELSE IF total_rooms # None /\ total_rooms[1] <= peak
       THEN "BusinessRuleError"
       ELSE IF ~Hotel_post_init(updated) THEN "ValueError"
       ELSE IF ~Hotel_from_dict_ok(Hotel_to_dict(updated)) THEN "ValueError"
       ELSE "ok"

update_hotel_result(self, hotel_id, name, city, total_rooms, address, rating) ==
    LET hotel == get_hotel(self, hotel_id)
        peak == _max_concurrent_active(list_by_hotel(self, hotel_id))
        updated == updated_hotel(hotel[1], name, city, total_rooms,
                                 address, rating)
    IN IF hotel = None THEN "NotFoundError"
       ELSE IF total_rooms # None /\ total_rooms[1] <= 0
       THEN "ValidationError"
       ELSE IF total_rooms # None /\ total_rooms[1] < peak
       THEN "BusinessRuleError"
       ELSE IF ~Hotel_post_init(updated) THEN "ValueError"
       ELSE IF ~Hotel_from_dict_ok(Hotel_to_dict(updated)) THEN "ValueError"
       ELSE "ok"

(* faulty variant: the hotel is saved before the peak is looked at *)
update_hotel_world_saves_first(self, hotel_id, name, city, total_rooms, address, rating) ==
    IF get_hotel(self, hotel_id) = None THEN self
    ELSE IF total_rooms # None /\ total_rooms[1] <= 0 THEN self
    ELSE upsert(self, HotelRepository,
                updated_hotel(get_hotel(self, hotel_id)[1], name, city,
                              total_rooms, address, rating))

update_hotel_world(self, hotel_id, name, city, total_rooms, address, rating) ==
    IF update_hotel_result(self, hotel_id, name, city, total_rooms,
                           address, rating) = "ok"
    THEN upsert(self, HotelRepository,
                updated_hotel(get_hotel(self, hotel_id)[1], name, city,
                              total_rooms, address, rating))
    ELSE self

(* faulty variant: a reservation that ends today still counts *)
active_or_future_until_today(self, rs) ==
    LET future(r) == r.check_out >= self.today
    IN SelectSeq(_active_reservations(rs), future)

active_or_future(self, rs) ==
    LET future(r) == r.check_out > self.today
    IN SelectSeq(_active_reservations(rs), future)

delete_hotel_result(self, hotel_id) ==
    IF get_hotel(self, hotel_id) = None THEN "NotFoundError"
    ELSE IF active_or_future(self, list_by_hotel(self, hotel_id)) # <<>>
    THEN "BusinessRuleError"
    ELSE IF ~delete_return(self, HotelRepository, hotel_id)
    THEN "NotFoundError"
    ELSE "ok"

delete_hotel_world(self, hotel_id) ==
    IF delete_hotel_result(self, hotel_id) = "ok"
    THEN delete(self, HotelRepository, hotel_id)
    ELSE self

(* rid = kwargs.get("reservation_id") or generate_id("RES") *)
reservation_id_given(reservation_id) ==
    reservation_id # None /\ reservation_id # Some("")

reservation_id_used(self, reservation_id) ==
    IF reservation_id_given(reservation_id) THEN reservation_id[1]
    ELSE generate_id("RES", self.uuid_count)

new_reservation(rid, hotel, customer, check_in, check_out, room_number) ==
    [reservation_id |-> rid,
     hotel_id |-> hotel.hotel_id,
     customer_id |-> customer.customer_id,
     check_in |-> check_in,
     check_out |-> check_out,
     room_number |-> room_number,
     status |-> "ACTIVE"]

(* faulty variant: the hotel is looked up before the dates are validated *)
reserve_room_result_hotel_first(self, customer_id, hotel_id, check_in, check_out, reservation_id, room_number) ==
    LET hotel == get_hotel(self, hotel_id)
        customer == get_customer(self, customer_id)
        overlaps == _active_overlaps_for_hotel(
                        list_by_hotel(self, hotel_id), check_in, check_out)
        available == hotel[1].total_rooms - Len(overlaps)
        rid == reservation_id_used(self, reservation_id)
    IN IF hotel = None THEN "NotFoundError"
       ELSE IF ~_validate_dates(check_in, check_out) THEN "ValidationError"
       ELSE IF customer = None THEN "NotFoundError"
       ELSE IF available <= 0 THEN "BusinessRuleError"
       ELSE IF ~Reservation_post_init(
                   new_reservation(rid, hotel[1], customer[1],
                                   check_in, check_out, room_number))
       THEN "ValueError"
       ELSE "ok"

(* faulty variant: the rooms are counted before the customer is looked up *)
reserve_room_result_rooms_first(self, customer_id, hotel_id, check_in, check_out, reservation_id, room_number) ==
    LET hotel == get_hotel(self, hotel_id)
        customer == get_customer(self, customer_id)
        overlaps == _active_overlaps_for_hotel(
                        list_by_hotel(self, hotel_id), check_in, check_out)
        available == hotel[1].total_rooms - Len(overlaps)
        rid == reservation_id_used(self, reservation_id)
    IN IF ~_validate_dates(check_in, check_out) THEN "ValidationError"
       ELSE IF hotel = None THEN "NotFoundError"
       ELSE IF available <= 0 THEN "BusinessRuleError"
       ELSE IF customer = None THEN "NotFoundError"
       ELSE IF ~Reservation_post_init(
                   new_reservation(rid, hotel[1], customer[1],
                                   check_in, check_out, room_number))
       THEN "ValueError"
       ELSE "ok"

reserve_room_result(self, customer_id, hotel_id, check_in, check_out, reservation_id, room_number) ==
    LET hotel == get_hotel(self, hotel_id)
        customer == get_customer(self, customer_id)
        overlaps == _active_overlaps_for_hotel(
                        list_by_hotel(self, hotel_id), check_in, check_out)
        available == hotel[1].total_rooms - Len(overlaps)
        rid == reservation_id_used(self, reservation_id)
    IN IF ~_validate_dates(check_in, check_out) THEN "ValidationError"
       ELSE IF hotel = None THEN "NotFoundError"
       ELSE IF customer = None THEN "NotFoundError"
       ELSE IF available <= 0 THEN "BusinessRuleError"
       ELSE IF ~Reservation_post_init(
                   new_reservation(rid, hotel[1], customer[1],
                                   check_in, check_out, room_number))
       THEN "ValueError"
       ELSE "ok"

reserve_room_return(self, customer_id, hotel_id, check_in, check_out, reservation_id, room_number) ==
    new_reservation(reservation_id_used(self, reservation_id),
                    get_hotel(self, hotel_id)[1],
                    get_customer(self, customer_id)[1],
                    check_in, check_out, room_number)

reserve_room_world(self, customer_id, hotel_id, check_in, check_out, reservation_id, room_number) ==
    IF reserve_room_result(self, customer_id, hotel_id, check_in,
                           check_out, reservation_id, room_number) = "ok"
    THEN [upsert(self, ReservationRepository,
                 reserve_room_return(self, customer_id, hotel_id, check_in,
                                     check_out, reservation_id,
                                     room_number))
             EXCEPT !.uuid_count =
                 IF reservation_id_given(reservation_id) THEN @ ELSE @ + 1]
    ELSE self

(* faulty variant: a reservation already CANCELED is cancelled again *)
cancel_reservation_result_no_conflict(self, reservation_id) ==
    IF get_reservation(self, reservation_id) = None THEN "NotFoundError"
    ELSE "ok"

cancel_reservation_result(self, reservation_id) ==
    LET res == get_reservation(self, reservation_id)
    IN IF res = None THEN "NotFoundError"
       ELSE IF res[1].status = "CANCELED" THEN "ConflictError"
       ELSE "ok"

cancel_reservation_return(self, reservation_id) ==
    [get_reservation(self, reservation_id)[1] EXCEPT !.status = "CANCELED"]

cancel_reservation_world(self, reservation_id) ==
    IF cancel_reservation_result(self, reservation_id) = "ok"
    THEN upsert(self, ReservationRepository,
                cancel_reservation_return(self, reservation_id))
    ELSE self

new_customer(customer_id, full_name, email, phone) ==
    [customer_id |-> customer_id, full_name |-> full_name,
     email |-> email, phone |-> phone]

create_customer_result(self, customer_id, full_name, email, phone) ==
    IF get_customer(self, customer_id) # None THEN "DuplicateIdError"
    ELSE IF ~Customer_post_init(new_customer(customer_id, full_name, email,
                                             phone))
    THEN "ValueError"
    ELSE "ok"

create_customer_world(self, customer_id, full_name, email, phone) ==
    IF create_customer_result(self, customer_id, full_name, email,
                              phone) = "ok"
    THEN upsert(self, CustomerRepository,
                new_customer(customer_id, full_name, email, phone))
    ELSE self

updated_customer(c, full_name, email, phone) ==
    [customer_id |-> c.customer_id,
     full_name |-> IF full_name = None THEN c.full_name ELSE full_name[1],
     email |-> IF email = None THEN c.email ELSE email[1],
     phone |-> IF phone = None THEN c.phone ELSE phone]

update_customer_result(self, customer_id, full_name, email, phone) ==
    LET c == get_customer(self, customer_id)
        updated == updated_customer(c[1], full_name, email, phone)
    IN IF c = None THEN "NotFoundError"
       ELSE IF ~Customer_post_init(updated) THEN "ValueError"
       ELSE IF ~Customer_from_dict_ok(Customer_to_dict(updated))
       THEN "ValueError"
       ELSE "ok"

update_customer_world(self, customer_id, full_name, email, phone) ==
    IF update_customer_result(self, customer_id, full_name, email,
                              phone) = "ok"
    THEN upsert(self, CustomerRepository,
                updated_customer(get_customer(self, customer_id)[1],
                                 full_name, email, phone))
    ELSE self

(* faulty variant: the customer's reservations are not looked at *)
delete_customer_result_unguarded(self, customer_id) ==
    IF get_customer(self, customer_id) = None THEN "NotFoundError"
    ELSE "ok"

delete_customer_result(self, customer_id) ==
    IF get_customer(self, customer_id) = None THEN "NotFoundError"
    ELSE IF active_or_future(self, list_by_customer(self, customer_id))
            # <<>>
    THEN "BusinessRuleError"
    ELSE IF ~delete_return(self, CustomerRepository, customer_id)
    THEN "NotFoundError"
    ELSE "ok"

delete_customer_world(self, customer_id) ==
    IF delete_customer_result(self, customer_id) = "ok"
    THEN delete(self, CustomerRepository, customer_id)
    ELSE self

----------------------------------------------------------------------------
(* Repository calls in progress.  upsert and delete read the collection,   *)
(* change the list they read, and write it back; calls records, for each   *)
(* caller, the list its call has read and what the call is about, and log  *)
(* the order of the reads and writes of the calls that run together.       *)

Callers == {"first", "second"}

Idle ==
    [pc |-> "idle", op |-> "none", entity |-> None, entity_id |-> "",
     items |-> <<>>, result |-> "none"]

NoCalls == [caller \in Callers |-> Idle]

----------------------------------------------------------------------------
(* State machine.  Each action is one service call; a call that raises     *)
(* is a step that leaves every variable as it was.  uuid_count is the      *)
(* number of generated IDs handed out so far.                              *)

FirstDay == 1

Init ==
    /\ hotels = Missing
    /\ customers = Missing
    /\ reservations = Missing
    /\ today = FirstDay
    /\ uuid_count = 0
    /\ streak = None
    /\ calls = NoCalls
    /\ log = <<>>
    /\ pool \in {"hotels", "customers"}

Becomes(world) ==
    /\ hotels' = world.hotels
    /\ customers' = world.customers
    /\ reservations' = world.reservations
    /\ today' = world.today
    /\ uuid_count' = world.uuid_count

create_hotel(hotel_id, name, city, total_rooms, address, rating) ==
    Becomes(create_hotel_world(World, hotel_id, name, city, total_rooms,
                               address, rating))

update_hotel(hotel_id, name, city, total_rooms, address, rating) ==
    Becomes(update_hotel_world(World, hotel_id, name, city, total_rooms,
                               address, rating))

delete_hotel(hotel_id) == Becomes(delete_hotel_world(World, hotel_id))

reserve_room(customer_id, hotel_id, check_in, check_out, reservation_id, room_number) ==
    LET world == reserve_room_world(World, customer_id, hotel_id, check_in,
                                    check_out, reservation_id, room_number)
    IN /\ world.uuid_count <= MaxUuid
       /\ Becomes(world)

cancel_reservation(reservation_id) ==
    Becomes(cancel_reservation_world(World, reservation_id))

create_customer(customer_id, full_name, email, phone) ==
    Becomes(create_customer_world(World, customer_id, full_name, email,
                                  phone))

update_customer(customer_id, full_name, email, phone) ==
    Becomes(update_customer_world(World, customer_id, full_name, email,
                                  phone))

delete_customer(customer_id) ==
    Becomes(delete_customer_world(World, customer_id))

(* date.today() moves on between calls *)
Tick ==
    /\ today < MaxDate
    /\ today' = today + 1
    /\ UNCHANGED <<hotels, customers, reservations, uuid_count>>

(* Arguments the calls are tried with *)
RoomCounts == 0..MaxRooms

TotalRoomsUpdates == {None} \cup {Some(k) : k \in 0..MaxRooms}

DateRanges == {d \in Dates \X Dates : d[1] < d[2]}

DateArgs == DateRanges \cup {<<1, 1>>}

IssuedIds == {UuidNames[i] : i \in 1..uuid_count}

KnownReservationIds == CallerReservationIds \cup IssuedIds

ReservationKwargs ==
    {<<None, None>>, <<Some(" "), None>>, <<None, Some(0)>>}
    \cup {<<Some(id), None>> : id \in KnownReservationIds}

Next ==
    \/ \E h \in HotelIds, k \in RoomCounts :
          /\ create_hotel(h, "Hotel", "CDMX", k, None, None)
          /\ UNCHANGED <<streak, pool, calls, log>>
    \/ \E h \in HotelIds, k \in TotalRoomsUpdates :
          /\ update_hotel(h, None, None, k, None, None)
          /\ UNCHANGED <<streak, pool, calls, log>>
    \/ \E h \in HotelIds :
          /\ delete_hotel(h)
          /\ UNCHANGED <<streak, pool, calls, log>>
    \/ \E c \in CustomerIds, h \in HotelIds, d \in DateArgs,
          kw \in ReservationKwargs :
          /\ reserve_room(c, h, d[1], d[2], kw[1], kw[2])
          /\ UNCHANGED <<streak, pool, calls, log>>
    \/ \E rid \in KnownReservationIds :
          /\ cancel_reservation(rid)
          /\ UNCHANGED <<streak, pool, calls, log>>
    \/ \E c \in CustomerIds, e \in {"ana@example.com", "no-email"} :
          /\ create_customer(c, "Ana", e, None)
          /\ UNCHANGED <<streak, pool, calls, log>>
    \/ \E c \in CustomerIds, e \in {None, Some("no-email")} :
          /\ update_customer(c, None, e, None)
          /\ UNCHANGED <<streak, pool, calls, log>>
    \/ \E c \in CustomerIds :
          /\ delete_customer(c)
          /\ UNCHANGED <<streak, pool, calls, log>>

Spec == Init /\ [][Next]_vars

(* Successive bookings of one range.  streak records a run of successful   *)
(* reserve_room calls by distinct customers for one date range of a hotel  *)
(* that had no reservation recorded when the first of them was made.       *)
next_streak(customer_id, hotel_id, check_in, check_out) ==
    IF /\ streak # None
       /\ streak[1].hotel_id = hotel_id
       /\ streak[1].check_in = check_in
       /\ streak[1].check_out = check_out
       /\ customer_id \notin streak[1].customers
    THEN Some([streak[1] EXCEPT !.customers = @ \cup {customer_id},
                                !.calls = @ + 1])
    ELSE IF list_by_hotel(World, hotel_id) = <<>>
    THEN Some([hotel_id |-> hotel_id, check_in |-> check_in,
               check_out |-> check_out, customers |-> {customer_id},
               calls |-> 1])
    ELSE None

InitStreak ==
    /\ hotels = Missing
    /\ customers = Missing
    /\ reservations = Missing
    /\ today = FirstDay
    /\ uuid_count = 0
    /\ streak = None
    /\ calls = NoCalls
    /\ log = <<>>
    /\ pool = "queue"

NextStreak ==
    \/ \E h \in HotelIds, k \in RoomCounts :
          /\ create_hotel(h, "Hotel", "CDMX", k, None, None)
          /\ UNCHANGED <<streak, pool, calls, log>>
    \/ \E c \in CustomerIds :
          /\ create_customer(c, "Ana", "ana@example.com", None)
          /\ UNCHANGED <<streak, pool, calls, log>>
    \/ \E c \in CustomerIds, h \in HotelIds, d \in DateRanges,
          rid \in {None} \cup {Some(id) : id \in CallerReservationIds} :
          /\ reserve_room(c, h, d[1], d[2], rid, None)
          /\ streak' =
                IF reserve_room_result(World, c, h, d[1], d[2], rid,
                                       None) = "ok"
                THEN next_streak(c, h, d[1], d[2])
                ELSE streak
          /\ UNCHANGED <<pool, calls, log>>

SpecStreak == InitStreak /\ [][NextStreak]_vars

(* The same calls, with the clock moving on between them *)
NextClock ==
    \/ Next
    \/ Tick /\ UNCHANGED <<streak, pool, calls, log>>

SpecClock == Init /\ [][NextClock]_vars

----------------------------------------------------------------------------
(* The repositories on their own: entities are built by the constructors   *)
(* and handed to upsert, IDs are handed to delete.                         *)

Addresses == {None, Some(""), Some(" "), Some(" Av 1 ")}

Ratings == {None, Some(45)}

Phones == {None, Some(""), Some("555")}

HotelEntities ==
    {h \in {new_hotel(id, "Hotel", "CDMX", 1, a, r) :
               id \in {"H1", "H2"}, a \in Addresses, r \in Ratings} :
        Hotel_post_init(h)}

CustomerEntities ==
    {c \in {new_customer("C1", "Ana", "ana@example.com", ph) :
               ph \in Phones} :
        Customer_post_init(c)}

ReservationEntities ==
    {r \in {[reservation_id |-> "R1", hotel_id |-> "H1",
             customer_id |-> "C1", check_in |-> d[1], check_out |-> d[2],
             room_number |-> room, status |-> st] :
               d \in {<<0, 1>>, <<1, 2>>}, room \in {None, Some(1)},
               st \in {"ACTIVE", "CANCELED"}} :
        Reservation_post_init(r)}

Repositories == {HotelRepository, CustomerRepository, ReservationRepository}

Entities(repo) ==
    CASE repo.path = "hotels" -> HotelEntities
      [] repo.path = "customers" -> CustomerEntities
      [] OTHER -> ReservationEntities

EntityIds(repo) ==
    CASE repo.path = "hotels" -> {"H1", "H2", "H3"}
      [] repo.path = "customers" -> {"C1", "C2"}
      [] OTHER -> {"R1", "R2"}

InitRepository ==
    /\ hotels = Missing
    /\ customers = Missing
    /\ reservations = Missing
    /\ today = FirstDay
    /\ uuid_count = 0
    /\ streak = None
    /\ calls = NoCalls
    /\ log = <<>>
    /\ pool = "repository"

BaseRepository_upsert(repo, entity, fault) ==
    /\ Becomes(upsert_world(World, repo, entity, fault))
    /\ UNCHANGED <<streak, pool, calls, log>>

BaseRepository_delete(repo, entity_id, fault) ==
    /\ Becomes(delete_world(World, repo, entity_id, fault))
    /\ UNCHANGED <<streak, pool, calls, log>>

NextCrud ==
    \/ \E repo \in Repositories : \E entity \in Entities(repo) :
          BaseRepository_upsert(repo, entity, "none")
    \/ \E repo \in Repositories : \E entity_id \in EntityIds(repo) :
          BaseRepository_delete(repo, entity_id, "none")

SpecCrud == InitRepository /\ [][NextCrud]_vars

(* The hotel repository on a disk that misbehaves: a write may fail, and   *)
(* between two calls the file may be replaced from outside by content that *)
(* is not what the repository wrote.                                       *)

RawGoodHotel(id) ==
    [hotel_id |-> id, name |-> "Bueno", city |-> "CDMX", total_rooms |-> 1]

RawHotels ==
    {RawGoodHotel("H1"), RawGoodHotel("H2"),
     [RawGoodHotel("H2") EXCEPT !.total_rooms = 0],
     [RawGoodHotel("H1") EXCEPT !.total_rooms = Infinity],
     [hotel_id |-> "H3", city |-> "CDMX", total_rooms |-> 1]}

MaxRaw == 3

RawHotelArrays == UNION {[1..n -> RawHotels] : n \in 0..MaxRaw}

ForeignFiles ==
    {File(kind) : kind \in {"missing", "unreadable", "undecodable",
                            "malformed", "too_deep", "not_array"}}
    \cup {ArrayFile(raw_list) : raw_list \in RawHotelArrays}

ExternalWrite(file) ==
    /\ hotels' = file
    /\ UNCHANGED <<customers, reservations, today, uuid_count, streak, pool,
                   calls, log>>

NextDisk ==
    \/ \E entity \in HotelEntities, fault \in Faults :
          BaseRepository_upsert(HotelRepository, entity, fault)
    \/ \E entity_id \in EntityIds(HotelRepository), fault \in Faults :
          BaseRepository_delete(HotelRepository, entity_id, fault)
    \/ \E file \in ForeignFiles : ExternalWrite(file)

SpecDisk == InitRepository /\ [][NextDisk]_vars

(* Two callers of the hotel repository whose calls interleave between     *)
(* the read and the write of upsert and delete.  A caller starts a call    *)
(* when it has none in progress; the log starts afresh when no call at all *)
(* is in progress.                                                         *)

RaceHotels ==
    {new_hotel(id, "Hotel", "CDMX", k, None, None) :
        id \in {"H1", "H2"}, k \in 1..MaxRooms}

OtherCaller(caller) == CHOOSE other \in Callers : other # caller

NothingInProgress == \A caller \in Callers : calls[caller].pc # "loaded"

MayStart(caller) ==
    \/ NothingInProgress
    \/ calls[caller].pc = "idle"

Started(caller, call) ==
    /\ calls' = IF NothingInProgress
                THEN [NoCalls EXCEPT ![caller] = call]
                ELSE [calls EXCEPT ![caller] = call]
    /\ log' = IF NothingInProgress THEN <<<<caller, "load">>>>
              ELSE Append(log, <<caller, "load">>)

(* the list a call writes back: the list it read, with its change *)
changed_items(repo, call) ==
    LET idx == _find_index(repo, call.items, call.entity_id)
    IN IF call.op = "upsert"
       THEN IF idx >= 1 THEN [call.items EXCEPT ![idx] = call.entity[1]]
            ELSE Append(call.items, call.entity[1])
       ELSE SubSeq(call.items, 1, idx - 1)
               \o SubSeq(call.items, idx + 1, Len(call.items))

(* upsert, up to and including items = self._load_all() *)
upsert_load(caller, entity) ==
    /\ MayStart(caller)
    /\ Started(caller, [pc |-> "loaded", op |-> "upsert",
                        entity |-> Some(entity),
                        entity_id |-> entity[HotelRepository.id_attr],
                        items |-> list_all(World, HotelRepository),
                        result |-> "none"])
    /\ UNCHANGED <<hotels, customers, reservations, today, uuid_count,
                   streak, pool>>

(* faulty variant: the collection is read again just before it is written *)
upsert_save_reloading(caller) ==
    /\ calls[caller].pc = "loaded"
    /\ calls[caller].op = "upsert"
    /\ hotels' = upsert(World, HotelRepository, calls[caller].entity[1]).hotels
    /\ calls' = [calls EXCEPT ![caller].pc = "returned",
                              ![caller].result = "ok"]
    /\ log' = Append(log, <<caller, "save">>)
    /\ UNCHANGED <<customers, reservations, today, uuid_count, streak, pool>>

(* upsert, from the change of the list to self._save_all(items) *)
upsert_save(caller) ==
    /\ calls[caller].pc = "loaded"
    /\ calls[caller].op = "upsert"
    /\ hotels' = save_list(hotels,
                           _save_all(HotelRepository,
                                     changed_items(HotelRepository,
                                                   calls[caller])),
                           "none")
    /\ calls' = [calls EXCEPT ![caller].pc = "returned",
                              ![caller].result = "ok"]
    /\ log' = Append(log, <<caller, "save">>)
    /\ UNCHANGED <<customers, reservations, today, uuid_count, streak, pool>>

(* delete, up to the test of idx: with no such ID it returns False at once *)
delete_load(caller, entity_id) ==
    LET items == list_all(World, HotelRepository)
        idx == _find_index(HotelRepository, items, entity_id)
    IN /\ MayStart(caller)
       /\ Started(caller, [pc |-> IF idx = -1 THEN "returned" ELSE "loaded",
                           op |-> "delete", entity |-> None,
                           entity_id |-> entity_id, items |-> items,
                           result |-> IF idx = -1 THEN "False" ELSE "none"])
       /\ UNCHANGED <<hotels, customers, reservations, today, uuid_count,
                      streak, pool>>

(* delete, from items.pop(idx) to return True *)
delete_save(caller) ==
    /\ calls[caller].pc = "loaded"
    /\ calls[caller].op = "delete"
    /\ hotels' = save_list(hotels,
                           _save_all(HotelRepository,
                                     changed_items(HotelRepository,
                                                   calls[caller])),
                           "none")
    /\ calls' = [calls EXCEPT ![caller].pc = "returned",
                              ![caller].result = "True"]
    /\ log' = Append(log, <<caller, "save">>)
    /\ UNCHANGED <<customers, reservations, today, uuid_count, streak, pool>>

NextRace ==
    \/ \E caller \in Callers, entity \in RaceHotels :
          upsert_load(caller, entity)
    \/ \E caller \in Callers : upsert_save(caller)
    \/ \E caller \in Callers, entity_id \in {"H1", "H2"} :
          delete_load(caller, entity_id)
    \/ \E caller \in Callers : delete_save(caller)

SpecRace == InitRepository /\ [][NextRace]_vars

(* One hotel whose reservation collection is filled through the           *)
(* repository, so that it holds any reservations at all, in any order;     *)
(* update_hotel computes the peak occupancy of what is stored.             *)

SweepReservations ==
    {r \in {[reservation_id |-> id, hotel_id |-> "H1", customer_id |-> "C1",
             check_in |-> d[1], check_out |-> d[2], room_number |-> None,
             status |-> st] :
               id \in {"R1", "R2", "R3"}, d \in DateRanges,
               st \in {"ACTIVE", "CANCELED"}} :
        Reservation_post_init(r)}

NextSweep ==
    \/ \E k \in 1..MaxRooms :
          /\ create_hotel("H1", "Hotel", "CDMX", k, None, None)
          /\ UNCHANGED <<streak, pool, calls, log>>
    \/ \E k \in 1..MaxRooms :
          /\ update_hotel("H1", None, None, Some(k), None, None)
          /\ UNCHANGED <<streak, pool, calls, log>>
    \/ \E entity \in SweepReservations :
          BaseRepository_upsert(ReservationRepository, entity, "none")
    \/ \E entity_id \in {"R1", "R2", "R3"} :
          BaseRepository_delete(ReservationRepository, entity_id, "none")

SpecSweep == InitRepository /\ [][NextSweep]_vars

(* Service calls and repository calls on the same three files, one after  *)
(* the other, in any order.                                                *)

InitMixed ==
    /\ hotels = Missing
    /\ customers = Missing
    /\ reservations = Missing
    /\ today = FirstDay
    /\ uuid_count = 0
    /\ streak = None
    /\ calls = NoCalls
    /\ log = <<>>
    /\ pool = "mixed"

MixedEntities(repo) ==
    CASE repo.path = "hotels" -> RaceHotels
      [] repo.path = "customers" ->
            {c \in CustomerEntities : c.phone = None}
      [] OTHER -> {r \in ReservationEntities : r.room_number = None}

NextMixed ==
    \/ Next
    \/ \E repo \in Repositories : \E entity \in MixedEntities(repo) :
          BaseRepository_upsert(repo, entity, "none")
    \/ \E repo \in Repositories : \E entity_id \in EntityIds(repo) :
          BaseRepository_delete(repo, entity_id, "none")

SpecMixed == InitMixed /\ [][NextMixed]_vars

(* Hotels and customers created with their optional fields, and updated  *)
(* field by field.                                                         *)

NameUpdates == {None, Some("Otro")}

AddressUpdates == {None, Some("Av 2")}

FullNameUpdates == {None, Some("Eva")}

PhoneUpdates == {None, Some("556")}

NextUpdate ==
    \/ \E h \in HotelIds, a \in Addresses :
          /\ create_hotel(h, "Hotel", "CDMX", 1, a, None)
          /\ UNCHANGED <<streak, pool, calls, log>>
    \/ \E h \in HotelIds, n \in NameUpdates, k \in {None, Some(MaxRooms)},
          a \in AddressUpdates :
          /\ update_hotel(h, n, None, k, a, None)
          /\ UNCHANGED <<streak, pool, calls, log>>
    \/ \E c \in CustomerIds, ph \in Phones :
          /\ create_customer(c, "Ana", "ana@example.com", ph)
          /\ UNCHANGED <<streak, pool, calls, log>>
    \/ \E c \in CustomerIds, n \in FullNameUpdates, ph \in PhoneUpdates :
          /\ update_customer(c, n, None, ph)
          /\ UNCHANGED <<streak, pool, calls, log>>
    \/ \E c \in CustomerIds, h \in HotelIds :
          /\ reserve_room(c, h, FirstDay, FirstDay + 1, None, None)
          /\ UNCHANGED <<streak, pool, calls, log>>

SpecUpdate == Init /\ [][NextUpdate]_vars

(* Two callers of reserve_room whose calls interleave: a call reads the   *)
(* stores for its checks, then upsert reads the reservations, then upsert  *)
(* writes them.  The hotel, the customer and an earlier reservation are    *)
(* put in place before either caller starts; each caller makes one call.   *)

RacingReservationIds == {Some("R1"), Some("R2")}

Logged(caller, step) == log' = Append(log, <<caller, step>>)

(* faulty variant: the call goes on although no room is left *)
reserve_check_unchecked(caller, customer_id, hotel_id, check_in, check_out, reservation_id) ==
    LET result == reserve_room_result(World, customer_id, hotel_id, check_in,
                                      check_out, reservation_id, None)
    IN /\ calls[caller].pc = "idle"
       /\ calls' = [calls EXCEPT ![caller] =
             IF result \in {"ok", "BusinessRuleError"}
             THEN [pc |-> "checked", op |-> "reserve_room",
                   entity |-> Some(reserve_room_return(World, customer_id,
                                       hotel_id, check_in, check_out,
                                       reservation_id, None)),
                   entity_id |-> reservation_id[1], items |-> <<>>,
                   result |-> "none"]
             ELSE [Idle EXCEPT !.pc = "returned", !.op = "reserve_room",
                               !.result = result]]
       /\ Logged(caller, "check")
       /\ UNCHANGED <<hotels, customers, reservations, today, uuid_count,
                      streak, pool>>

(* reserve_room, from _validate_dates to the Reservation it builds *)
reserve_check(caller, customer_id, hotel_id, check_in, check_out, reservation_id) ==
    LET result == reserve_room_result(World, customer_id, hotel_id, check_in,
                                      check_out, reservation_id, None)
    IN /\ calls[caller].pc = "idle"
       /\ calls' = [calls EXCEPT ![caller] =
             IF result = "ok"
             THEN [pc |-> "checked", op |-> "reserve_room",
                   entity |-> Some(reserve_room_return(World, customer_id,
                                       hotel_id, check_in, check_out,
                                       reservation_id, None)),
                   entity_id |-> reservation_id[1], items |-> <<>>,
                   result |-> "none"]
             ELSE [Idle EXCEPT !.pc = "returned", !.op = "reserve_room",
                               !.result = result]]
       /\ Logged(caller, "check")
       /\ UNCHANGED <<hotels, customers, reservations, today, uuid_count,
                      streak, pool>>

(* self._reservations.upsert(reservation): items = self._load_all() *)
reserve_load(caller) ==
    /\ calls[caller].pc = "checked"
    /\ calls' = [calls EXCEPT ![caller].pc = "loaded",
                              ![caller].items =
                                  list_all(World, ReservationRepository)]
    /\ Logged(caller, "load")
    /\ UNCHANGED <<hotels, customers, reservations, today, uuid_count,
                   streak, pool>>

(* self._reservations.upsert(reservation): the change of items and         *)
(* self._save_all(items); then reserve_room returns                        *)
reserve_save(caller) ==
    /\ calls[caller].pc = "loaded"
    /\ calls[caller].op = "reserve_room"
    /\ reservations' =
          save_list(reservations,
                    _save_all(ReservationRepository,
                              changed_items(ReservationRepository,
                                  [calls[caller] EXCEPT !.op = "upsert"])),
                    "none")
    /\ calls' = [calls EXCEPT ![caller].pc = "returned",
                              ![caller].result = "ok"]
    /\ Logged(caller, "save")
    /\ UNCHANGED <<hotels, customers, today, uuid_count, streak, pool>>

NextBooking ==
    \/ \E k \in 1..MaxRooms :
          /\ calls = NoCalls
          /\ create_hotel("H1", "Hotel", "CDMX", k, None, None)
          /\ UNCHANGED <<streak, pool, calls, log>>
    \/ /\ calls = NoCalls
       /\ create_customer("C1", "Ana", "ana@example.com", None)
       /\ UNCHANGED <<streak, pool, calls, log>>
    \/ \E d \in DateRanges :
          /\ calls = NoCalls
          /\ reserve_room("C1", "H1", d[1], d[2], None, None)
          /\ UNCHANGED <<streak, pool, calls, log>>
    \/ \E caller \in Callers, d \in DateRanges,
          rid \in RacingReservationIds :
          reserve_check(caller, "C1", "H1", d[1], d[2], rid)
    \/ \E caller \in Callers : reserve_load(caller)
    \/ \E caller \in Callers : reserve_save(caller)

SpecBooking == InitMixed /\ [][NextBooking]_vars

----------------------------------------------------------------------------
(* Vocabulary of the properties.  Occupancy is counted day by day over     *)
(* the stored reservations, independently of the sweep and the overlap     *)
(* test of the service layer.                                              *)

Stored(self) == list_all(self, ReservationRepository)

IsStoredHotel(self, hotel_id) == get_hotel(self, hotel_id) # None

IsStoredCustomer(self, customer_id) == get_customer(self, customer_id) # None

TotalRooms(self, hotel_id) == get_hotel(self, hotel_id)[1].total_rooms

Covers(r, day) == r.check_in <= day /\ day < r.check_out

SharesDay(r, check_in, check_out) ==
    \E day \in Dates : Covers(r, day) /\ check_in <= day /\ day < check_out

ActiveOn(self, hotel_id, day) ==
    LET rs == Stored(self)
    IN {i \in 1..Len(rs) :
           /\ rs[i].hotel_id = hotel_id
           /\ rs[i].status = "ACTIVE"
           /\ Covers(rs[i], day)}

ActiveOverlapping(self, hotel_id, check_in, check_out) ==
    LET rs == Stored(self)
    IN {i \in 1..Len(rs) :
           /\ rs[i].hotel_id = hotel_id
           /\ rs[i].status = "ACTIVE"
           /\ SharesDay(rs[i], check_in, check_out)}

PeakOccupancy(self, hotel_id) ==
    LET counts == {Cardinality(ActiveOn(self, hotel_id, day)) : day \in Dates}
    IN CHOOSE n \in counts : \A m \in counts : m <= n

StoredUnder(self, reservation_id) ==
    LET rs == Stored(self)
    IN {i \in 1..Len(rs) : rs[i].reservation_id = reservation_id}

HasStatus(self, reservation_id, status) ==
    LET rs == Stored(self)
    IN \E i \in 1..Len(rs) :
           rs[i].reservation_id = reservation_id /\ rs[i].status = status

AllReservationIds ==
    CallerReservationIds \cup {UuidNames[i] : i \in 1..Len(UuidNames)}

(* reservation_id arguments: absent, empty or a non-blank ID; and the     *)
(* same with a blank one                                                  *)
GoodReservationIds ==
    {None, Some("")} \cup {Some(id) : id \in KnownReservationIds}

AnyReservationIds == GoodReservationIds \cup {Some(" ")}

(* room_number arguments: absent or positive *)
GoodRoomNumbers == {None, Some(1)}

WithoutId(rs, reservation_id) ==
    LET other(r) == r.reservation_id # reservation_id
    IN SelectSeq(rs, other)

(* `after` is `before` with exactly one record, `written`, put under its  *)
(* ID and every record stored under another ID left as it was             *)
WrittenOnce(before, after, written) ==
    /\ Cardinality({i \in 1..Len(after) :
           after[i].reservation_id = written.reservation_id}) = 1
    /\ \E i \in 1..Len(after) : after[i] = written
    /\ WithoutId(after, written.reservation_id)
          = WithoutId(before, written.reservation_id)

----------------------------------------------------------------------------
(* C1: after a successful reserve_room(customer, hotel, check_in,          *)
(* check_out), on every day d with check_in <= d < check_out the number of *)
(* stored ACTIVE reservations of that hotel whose range contains d is at   *)
(* most the hotel's total_rooms.                                           *)
C1_NoOverbookingAfterReserve ==
    \A c \in CustomerIds, h \in HotelIds, d \in DateRanges,
       rid \in GoodReservationIds :
        LET after == reserve_room_world(World, c, h, d[1], d[2], rid, None)
        IN reserve_room_result(World, c, h, d[1], d[2], rid, None) = "ok"
           => \A day \in d[1]..(d[2] - 1) :
                  Cardinality(ActiveOn(after, h, day))
                      <= TotalRooms(after, h)

(* A hotel of at least two rooms is booked out on some day: reserve_room   *)
(* has filled it up to its capacity.                                       *)
C1_BookedOut ==
    \E h \in HotelIds, day \in Dates :
        /\ IsStoredHotel(World, h)
        /\ TotalRooms(World, h) >= 2
        /\ Cardinality(ActiveOn(World, h, day)) = TotalRooms(World, h)

----------------------------------------------------------------------------
(* C2: in every reachable state every stored hotel has total_rooms at      *)
(* least the peak concurrent occupancy of the ACTIVE reservations recorded *)
(* with its hotel_id.                                                      *)
C2_CapacityInvariant ==
    \A h \in HotelIds :
        IsStoredHotel(World, h)
        => TotalRooms(World, h) >= PeakOccupancy(World, h)

----------------------------------------------------------------------------
(* What the availability rule says of one request for a stored hotel and   *)
(* a stored customer: it succeeds iff a room is free; on success exactly   *)
(* one ACTIVE reservation with the requested hotel, customer and dates is  *)
(* persisted, otherwise it fails with BusinessRuleError.                   *)
AvailabilityRule(c, h, check_in, check_out, rid, room) ==
    LET result == reserve_room_result(World, c, h, check_in, check_out,
                                      rid, room)
        after == reserve_room_world(World, c, h, check_in, check_out,
                                    rid, room)
        free == TotalRooms(World, h)
                - Cardinality(ActiveOverlapping(World, h, check_in,
                                                check_out))
        written == [reservation_id |-> reservation_id_used(World, rid),
                    hotel_id |-> h, customer_id |-> c,
                    check_in |-> check_in, check_out |-> check_out,
                    room_number |-> room, status |-> "ACTIVE"]
    IN IF free > 0
       THEN /\ result = "ok"
            /\ WrittenOnce(Stored(World), Stored(after), written)
            /\ after.hotels = hotels
            /\ after.customers = customers
       ELSE /\ result = "BusinessRuleError"
            /\ after = World

(* C3, as stated: the rule holds of every request with check_in <          *)
(* check_out, an existing hotel, an existing customer and an absent or     *)
(* positive room_number.                                                   *)
C3_AvailabilityRuleAnyId ==
    \A c \in CustomerIds, h \in HotelIds, d \in DateRanges,
       rid \in AnyReservationIds, room \in GoodRoomNumbers :
        IsStoredHotel(World, h) /\ IsStoredCustomer(World, c)
        => AvailabilityRule(c, h, d[1], d[2], rid, room)

(* C3, amended: the rule holds of every such request whose reservation_id  *)
(* is absent, empty or not blank.                                          *)
C3_AvailabilityRule ==
    \A c \in CustomerIds, h \in HotelIds, d \in DateRanges,
       rid \in GoodReservationIds, room \in GoodRoomNumbers :
        IsStoredHotel(World, h) /\ IsStoredCustomer(World, c)
        => AvailabilityRule(c, h, d[1], d[2], rid, room)

(* A stored hotel with a stored customer has an ACTIVE reservation, no     *)
(* room left for one range and a room left for another: reserve_room has   *)
(* succeeded, and both sides of the rule are live.                         *)
C3_FullAndFree ==
    \E c \in CustomerIds, h \in HotelIds, full \in DateRanges,
       free \in DateRanges :
        /\ IsStoredHotel(World, h) /\ IsStoredCustomer(World, c)
        /\ Cardinality(ActiveOverlapping(World, h, full[1], full[2]))
              = TotalRooms(World, h)
        /\ Cardinality(ActiveOverlapping(World, h, free[1], free[2]))
              < TotalRooms(World, h)

----------------------------------------------------------------------------
(* C4: once N successive reserve_room calls by distinct existing customers *)
(* for one date range of a hotel with total_rooms = N, which had no        *)
(* reservations, have succeeded, the next call for that range by another   *)
(* existing customer fails with BusinessRuleError and adds no reservation. *)
C4_NextCallRejected ==
    (streak # None /\ streak[1].calls = TotalRooms(World, streak[1].hotel_id))
    => \A c \in CustomerIds \ streak[1].customers,
          rid \in GoodReservationIds :
           IsStoredCustomer(World, c)
           => /\ reserve_room_result(World, c, streak[1].hotel_id,
                                     streak[1].check_in,
                                     streak[1].check_out, rid, None)
                    = "BusinessRuleError"
              /\ reserve_room_world(World, c, streak[1].hotel_id,
                                    streak[1].check_in,
                                    streak[1].check_out, rid, None)
                    = World

----------------------------------------------------------------------------
(* C5: if a hotel with total_rooms = N has exactly N ACTIVE reservations   *)
(* overlapping a range, reserve_room for that range is rejected, and after *)
(* cancel_reservation succeeds on any one of them a reserve_room for that  *)
(* range succeeds; CANCELED reservations never count in the overlap or     *)
(* peak-occupancy computations.                                            *)
C5_CancellationFreesCapacity ==
    \A h \in HotelIds :
        IsStoredHotel(World, h)
        => /\ _max_concurrent_active(list_by_hotel(World, h))
                = PeakOccupancy(World, h)
           /\ \A d \in DateRanges :
                 LET overlapping == ActiveOverlapping(World, h, d[1], d[2])
                 IN /\ Len(_active_overlaps_for_hotel(
                               list_by_hotel(World, h), d[1], d[2]))
                         = Cardinality(overlapping)
                    /\ Cardinality(overlapping) = TotalRooms(World, h)
                       => \A c \in CustomerIds, rid \in GoodReservationIds :
                            IsStoredCustomer(World, c)
                            => /\ reserve_room_result(World, c, h, d[1], d[2],
                                                      rid, None)
                                     = "BusinessRuleError"
                               /\ \A i \in overlapping :
                                    LET id == Stored(World)[i].reservation_id
                                        freed == cancel_reservation_world(
                                                     World, id)
                                    IN /\ cancel_reservation_result(World, id)
                                            = "ok"
                                       /\ reserve_room_result(
                                              freed, c, h, d[1], d[2], rid,
                                              None) = "ok"

(* A hotel is booked out for a range by ACTIVE reservations while a        *)
(* CANCELED reservation of that hotel overlaps the same range: a room was  *)
(* freed by cancel_reservation and booked again.                           *)
C5_FreedAndRebooked ==
    \E h \in HotelIds, d \in DateRanges :
        /\ IsStoredHotel(World, h)
        /\ Cardinality(ActiveOverlapping(World, h, d[1], d[2]))
              = TotalRooms(World, h)
        /\ \E i \in 1..Len(Stored(World)) :
              /\ Stored(World)[i].hotel_id = h
              /\ Stored(World)[i].status = "CANCELED"
              /\ SharesDay(Stored(World)[i], d[1], d[2])

----------------------------------------------------------------------------
(* C6: cancel_reservation(id) fails with NotFoundError when no reservation *)
(* is stored under the ID and with ConflictError when the stored one is    *)
(* CANCELED; otherwise it succeeds, persists the reservation with status   *)
(* CANCELED and every other field unchanged, and returns it.  A second     *)
(* cancel fails and leaves the store as the first cancel left it.          *)
C6_CancelReservation ==
    \A id \in AllReservationIds :
        LET at == StoredUnder(World, id)
            result == cancel_reservation_result(World, id)
            after == cancel_reservation_world(World, id)
        IN IF at = {}
           THEN result = "NotFoundError" /\ after = World
           ELSE \A i \in at :
                  IF Stored(World)[i].status = "CANCELED"
                  THEN result = "ConflictError" /\ after = World
                  ELSE /\ result = "ok"
                       /\ cancel_reservation_return(World, id)
                            = [Stored(World)[i] EXCEPT !.status = "CANCELED"]
                       /\ Stored(after)
                            = [Stored(World) EXCEPT ![i] =
                                  [@ EXCEPT !.status = "CANCELED"]]
                       /\ after.hotels = hotels
                       /\ after.customers = customers
                       /\ cancel_reservation_result(after, id)
                            = "ConflictError"
                       /\ cancel_reservation_world(after, id) = after

(* One reservation is stored CANCELED, another ACTIVE, and some ID has no  *)
(* reservation: cancel_reservation has succeeded and all three cases are   *)
(* live.                                                                   *)
C6_AllThreeCases ==
    /\ \E id \in AllReservationIds : HasStatus(World, id, "CANCELED")
    /\ \E id \in AllReservationIds : HasStatus(World, id, "ACTIVE")
    /\ \E id \in AllReservationIds : StoredUnder(World, id) = {}

----------------------------------------------------------------------------
(* C7: once a reservation is stored CANCELED under some reservation_id, no *)
(* service call (reserve_room with a caller-supplied reservation_id        *)
(* included) makes the reservation stored under that ID ACTIVE again.      *)
C7_CanceledIsTerminal ==
    [][\A id \in AllReservationIds :
          HasStatus(World, id, "CANCELED")
          => ~HasStatus(World, id, "ACTIVE")']_vars

----------------------------------------------------------------------------
(* update_hotel(hotel_id, total_rooms=k): integers k it is tried with *)
TotalRoomsArgs == (0 - 1)..(MaxRooms + 1)

SetTotalRoomsResult(self, h, k) ==
    update_hotel_result(self, h, None, None, Some(k), None, None)

SetTotalRoomsWorld(self, h, k) ==
    update_hotel_world(self, h, None, None, Some(k), None, None)

(* C8, as stated: for every existing hotel and every integer k,            *)
(* update_hotel(hotel_id, total_rooms=k) fails iff k is less than the peak *)
(* concurrent occupancy of the hotel's ACTIVE reservations.                *)
C8_FailsIffBelowPeakAnyInteger ==
    \A h \in HotelIds, k \in TotalRoomsArgs :
        IsStoredHotel(World, h)
        => (SetTotalRoomsResult(World, h, k) # "ok"
            <=> k < PeakOccupancy(World, h))

(* C8, amended: for every existing hotel and every integer k,              *)
(* update_hotel(hotel_id, total_rooms=k) fails iff k <= 0 or k is less     *)
(* than the peak concurrent occupancy of the hotel's ACTIVE reservations.  *)
C8_FailsIffNotPositiveOrBelowPeak ==
    \A h \in HotelIds, k \in TotalRoomsArgs :
        IsStoredHotel(World, h)
        => (SetTotalRoomsResult(World, h, k) # "ok"
            <=> (k <= 0 \/ k < PeakOccupancy(World, h)))

(* A stored hotel has two concurrent ACTIVE reservations and another has   *)
(* none: update_hotel refuses 0 for both and 1 for the first only.         *)
C8_PeakTwoAndPeakZero ==
    \E h \in HotelIds, g \in HotelIds :
        /\ IsStoredHotel(World, h) /\ IsStoredHotel(World, g)
        /\ PeakOccupancy(World, h) = 2 /\ PeakOccupancy(World, g) = 0
        /\ SetTotalRoomsResult(World, h, 1) = "BusinessRuleError"
        /\ SetTotalRoomsResult(World, g, 1) = "ok"
        /\ SetTotalRoomsResult(World, g, 0) = "ValidationError"

----------------------------------------------------------------------------
(* C9: for an existing hotel with peak concurrent occupancy p of its       *)
(* ACTIVE reservations (past, current and future alike),                   *)
(* update_hotel(total_rooms=k) with a positive k < p fails with            *)
(* BusinessRuleError and leaves the stored hotel unchanged, and with a     *)
(* positive k >= p it succeeds and persists total_rooms = k.               *)
C9_SafeCapacityChange ==
    \A h \in HotelIds, k \in 1..(MaxRooms + 1) :
        IsStoredHotel(World, h)
        => LET result == SetTotalRoomsResult(World, h, k)
               after == SetTotalRoomsWorld(World, h, k)
           IN IF k < PeakOccupancy(World, h)
              THEN result = "BusinessRuleError" /\ after = World
              ELSE /\ result = "ok"
                   /\ get_hotel(after, h)
                        = Some([get_hotel(World, h)[1]
                                   EXCEPT !.total_rooms = k])
                   /\ \A g \in HotelIds \ {h} :
                         get_hotel(after, g) = get_hotel(World, g)
                   /\ after.reservations = reservations
                   /\ after.customers = customers

(* A stored hotel of two rooms has two concurrent ACTIVE reservations, one *)
(* of them ended: update_hotel refuses to go down to 1, accepts 2 and      *)
(* changes the stored hotel when asked for 3.                              *)
C9_AtPeak ==
    \E h \in HotelIds :
        /\ IsStoredHotel(World, h)
        /\ TotalRooms(World, h) = 2
        /\ PeakOccupancy(World, h) = 2
        /\ \E i \in 1..Len(Stored(World)) :
              /\ Stored(World)[i].hotel_id = h
              /\ Stored(World)[i].status = "ACTIVE"
              /\ Stored(World)[i].check_out <= today
        /\ SetTotalRoomsWorld(World, h, 1) = World
        /\ SetTotalRoomsWorld(World, h, 3) # World

----------------------------------------------------------------------------
(* An ACTIVE reservation that ends strictly after today *)
BlocksDeletion(r) == r.status = "ACTIVE" /\ r.check_out > today

HotelBlocked(h) ==
    \E i \in 1..Len(Stored(World)) :
        Stored(World)[i].hotel_id = h /\ BlocksDeletion(Stored(World)[i])

CustomerBlocked(c) ==
    \E i \in 1..Len(Stored(World)) :
        Stored(World)[i].customer_id = c /\ BlocksDeletion(Stored(World)[i])

(* C10: delete_hotel (delete_customer) on an existing hotel (customer)     *)
(* succeeds and removes it iff no ACTIVE reservation referencing it has    *)
(* check_out strictly after today; otherwise it fails with                 *)
(* BusinessRuleError and nothing is removed.  CANCELED reservations and    *)
(* ACTIVE ones that have ended never block deletion.                       *)
C10_DeletionGuard ==
    /\ \A h \in HotelIds :
          IsStoredHotel(World, h)
          => LET result == delete_hotel_result(World, h)
                 after == delete_hotel_world(World, h)
             IN IF HotelBlocked(h)
                THEN result = "BusinessRuleError" /\ after = World
                ELSE /\ result = "ok"
                     /\ ~IsStoredHotel(after, h)
                     /\ \A g \in HotelIds \ {h} :
                           get_hotel(after, g) = get_hotel(World, g)
                     /\ after.customers = customers
                     /\ after.reservations = reservations
    /\ \A c \in CustomerIds :
          IsStoredCustomer(World, c)
          => LET result == delete_customer_result(World, c)
                 after == delete_customer_world(World, c)
             IN IF CustomerBlocked(c)
                THEN result = "BusinessRuleError" /\ after = World
                ELSE /\ result = "ok"
                     /\ ~IsStoredCustomer(after, c)
                     /\ \A b \in CustomerIds \ {c} :
                           get_customer(after, b) = get_customer(World, b)
                     /\ after.hotels = hotels
                     /\ after.reservations = reservations

(* An ACTIVE reservation that ended before today is stored, and neither   *)
(* its hotel nor its customer is stored any more: both were deleted in     *)
(* spite of it.  A CANCELED reservation is stored too.                     *)
C10_DeletedWithEndedBooking ==
    \E i \in 1..Len(Stored(World)), j \in 1..Len(Stored(World)) :
        /\ Stored(World)[i].status = "ACTIVE"
        /\ Stored(World)[i].check_out < today
        /\ ~IsStoredHotel(World, Stored(World)[i].hotel_id)
        /\ ~IsStoredCustomer(World, Stored(World)[i].customer_id)
        /\ Stored(World)[j].status = "CANCELED"

----------------------------------------------------------------------------
(* An ACTIVE reservation of hotel h that ends today or later *)
HotelHeldUntilToday(h) ==
    \E i \in 1..Len(Stored(World)) :
        /\ Stored(World)[i].hotel_id = h
        /\ Stored(World)[i].status = "ACTIVE"
        /\ Stored(World)[i].check_out >= today

(* C11: delete_hotel on a hotel that has an ACTIVE reservation whose       *)
(* check_out is today or later fails with a business-rule error, a         *)
(* check_out equal to today included.                                      *)
C11_HeldHotelNotDeleted ==
    \A h \in HotelIds :
        (IsStoredHotel(World, h) /\ HotelHeldUntilToday(h))
        => /\ IsBusinessRuleError(delete_hotel_result(World, h))
           /\ delete_hotel_world(World, h) = World

----------------------------------------------------------------------------
(* C12: create_hotel and create_customer fail with DuplicateIdError        *)
(* whenever a record with the given ID is already stored, whatever the     *)
(* other arguments are, and before anything is written: the stored record  *)
(* keeps all its field values and the collection keeps its size.           *)
C12_DuplicateIdRejected ==
    /\ \A h \in HotelIds, k \in RoomCounts, a \in {None, Some("Av 1")} :
          IsStoredHotel(World, h)
          => /\ create_hotel_result(World, h, "Otro", "GDL", k, a, None)
                   = "DuplicateIdError"
             /\ create_hotel_world(World, h, "Otro", "GDL", k, a, None)
                   = World
    /\ \A c \in CustomerIds, e \in {"luis@example.com", "no-email"} :
          IsStoredCustomer(World, c)
          => /\ create_customer_result(World, c, "Luis", e, Some("555"))
                   = "DuplicateIdError"
             /\ create_customer_world(World, c, "Luis", e, Some("555"))
                   = World

(* A hotel and a customer are stored, the hotel with reservations on it,   *)
(* while another ID of the pool is still free: create_hotel and            *)
(* create_customer have stored them, and a create is refused for the one   *)
(* ID and accepted for the other.                                          *)
C12_StoredAndFree ==
    /\ \E h \in HotelIds :
          /\ IsStoredHotel(World, h)
          /\ list_by_hotel(World, h) # <<>>
          /\ create_hotel_world(World, h, "Otro", "GDL", 1, None, None)
                = World
    /\ \E c \in CustomerIds : IsStoredCustomer(World, c)
    /\ \/ \E h \in HotelIds :
             create_hotel_result(World, h, "Otro", "GDL", 1, None, None)
                = "ok"
       \/ \E c \in CustomerIds :
             create_customer_result(World, c, "Luis", "luis@example.com",
                                    None) = "ok"

----------------------------------------------------------------------------
(* What the referential check says of one request: a reservation is        *)
(* persisted only if the hotel and the customer are both stored, and if    *)
(* either is missing the call fails with NotFoundError and leaves the      *)
(* reservation collection as it was.                                       *)
ReferentialCheck(c, h, check_in, check_out, rid, room) ==
    LET result == reserve_room_result(World, c, h, check_in, check_out,
                                      rid, room)
        after == reserve_room_world(World, c, h, check_in, check_out,
                                    rid, room)
    IN /\ after.reservations # reservations
          => IsStoredHotel(World, h) /\ IsStoredCustomer(World, c)
       /\ ~(IsStoredHotel(World, h) /\ IsStoredCustomer(World, c))
          => result = "NotFoundError" /\ after = World

(* C13, as stated: the referential check holds of every reserve_room       *)
(* call, whatever its dates are.                                           *)
C13_ReferentialCheckAnyDates ==
    \A c \in CustomerIds, h \in HotelIds, d \in DateArgs,
       rid \in AnyReservationIds, room \in {None, Some(0), Some(1)} :
        ReferentialCheck(c, h, d[1], d[2], rid, room)

(* C13, amended: the referential check holds of every reserve_room call    *)
(* with check_in < check_out.                                              *)
C13_ReferentialCheck ==
    \A c \in CustomerIds, h \in HotelIds, d \in DateRanges,
       rid \in AnyReservationIds, room \in {None, Some(0), Some(1)} :
        ReferentialCheck(c, h, d[1], d[2], rid, room)

(* A reservation is stored whose hotel is stored no more while its         *)
(* customer is: reserve_room has persisted a reservation, and a new        *)
(* request of that customer for that hotel meets a missing hotel.          *)
C13_HotelGone ==
    \E i \in 1..Len(Stored(World)) :
        /\ ~IsStoredHotel(World, Stored(World)[i].hotel_id)
        /\ IsStoredCustomer(World, Stored(World)[i].customer_id)
        /\ reserve_room_result(World, Stored(World)[i].customer_id,
                               Stored(World)[i].hotel_id, 1, 2, None, None)
              = "NotFoundError"

----------------------------------------------------------------------------
(* Structurally invalid arguments: a total_rooms that is not positive, a   *)
(* rating (in tenths) outside 0.0..5.0, a malformed email, a room_number   *)
(* that is not positive, dates with check_in >= check_out.                 *)
BadRoomCounts == {0 - 1, 0}

BadRatings == {Some(0 - 1), Some(51)}

BadEmails == {"no-email", ""}

BadRoomNumbers == {Some(0), Some(0 - 1)}

BadDateArgs == {d \in Dates \X Dates : d[1] >= d[2]}

(* C14: every structurally invalid input given to a service operation is   *)
(* reported with the ValidationError kind and nothing is persisted:        *)
(* non-positive total_rooms or out-of-range rating in create_hotel and     *)
(* update_hotel, malformed email in create_customer and update_customer,   *)
(* non-positive room_number or check_in >= check_out in reserve_room.      *)
C14_InvalidInputIsValidationError ==
    /\ \A h \in HotelIds :
          IF ~IsStoredHotel(World, h)
          THEN /\ \A k \in BadRoomCounts :
                     /\ create_hotel_result(World, h, "Hotel", "CDMX", k,
                                            None, None) = "ValidationError"
                     /\ create_hotel_world(World, h, "Hotel", "CDMX", k,
                                           None, None) = World
               /\ \A r \in BadRatings :
                     /\ create_hotel_result(World, h, "Hotel", "CDMX", 1,
                                            None, r) = "ValidationError"
                     /\ create_hotel_world(World, h, "Hotel", "CDMX", 1,
                                           None, r) = World
          ELSE /\ \A k \in BadRoomCounts :
                     /\ update_hotel_result(World, h, None, None, Some(k),
                                            None, None) = "ValidationError"
                     /\ update_hotel_world(World, h, None, None, Some(k),
                                           None, None) = World
               /\ \A r \in BadRatings :
                     /\ update_hotel_result(World, h, None, None, None,
                                            None, r) = "ValidationError"
                     /\ update_hotel_world(World, h, None, None, None,
                                           None, r) = World
    /\ \A c \in CustomerIds, e \in BadEmails :
          IF ~IsStoredCustomer(World, c)
          THEN /\ create_customer_result(World, c, "Ana", e, None)
                     = "ValidationError"
               /\ create_customer_world(World, c, "Ana", e, None) = World
          ELSE /\ update_customer_result(World, c, None, Some(e), None)
                     = "ValidationError"
               /\ update_customer_world(World, c, None, Some(e), None)
                     = World
    /\ \A c \in CustomerIds, h \in HotelIds :
          /\ \A d \in BadDateArgs :
                /\ reserve_room_result(World, c, h, d[1], d[2], None, None)
                      = "ValidationError"
                /\ reserve_room_world(World, c, h, d[1], d[2], None, None)
                      = World
          /\ \A d \in DateRanges, room \in BadRoomNumbers :
                (/\ IsStoredHotel(World, h) /\ IsStoredCustomer(World, c)
                 /\ Cardinality(ActiveOverlapping(World, h, d[1], d[2]))
                       < TotalRooms(World, h))
                => /\ reserve_room_result(World, c, h, d[1], d[2], None,
                                          room) = "ValidationError"
                   /\ reserve_room_world(World, c, h, d[1], d[2], None,
                                         room) = World

----------------------------------------------------------------------------
(* C15: for every valid Hotel, Customer and Reservation E, with empty or   *)
(* whitespace-padded optional strings and both statuses included,          *)
(* from_dict(E.to_dict()) succeeds and yields an entity equal to E in      *)
(* every field.  It is stated of the records that upsert has written:      *)
(* each is E.to_dict() of some entities E, and must read back as E.        *)
C15_RoundTrip ==
    \A repo \in Repositories :
        \A i \in 1..Len(World[repo.path].items) :
            \A e \in Entities(repo) :
                _to_dict(repo, e) = World[repo.path].items[i]
                => /\ _from_dict_result(repo, _to_dict(repo, e)) = "ok"
                   /\ _from_dict(repo, _to_dict(repo, e)) = e

----------------------------------------------------------------------------
(* A well-formed hotel record: every required field is there and           *)
(* total_rooms is a positive integer.                                      *)
WellFormedHotel(raw) ==
    /\ {"hotel_id", "name", "city", "total_rooms"} \subseteq DOMAIN raw
    /\ raw.total_rooms > 0
    /\ raw.total_rooms # Infinity

(* C16: for any stored array mixing well-formed and ill-formed records,    *)
(* list_all() never fails and returns exactly the entities of the          *)
(* well-formed records, in their stored order; get_by_id finds exactly     *)
(* those.                                                                  *)
C16_CorruptRecordsSkipped ==
    hotels.kind = "array"
    => LET good == SelectSeq(hotels.items, WellFormedHotel)
       IN /\ list_all_result(World, HotelRepository) = "ok"
          /\ list_all(World, HotelRepository)
                = [i \in 1..Len(good) |-> Hotel_from_dict(good[i])]
          /\ \A id \in EntityIds(HotelRepository) :
                get_by_id(World, HotelRepository, id) # None
                <=> \E i \in 1..Len(good) : good[i].hotel_id = id

----------------------------------------------------------------------------
(* C17: load_list never reports an error to its caller for a missing path, *)
(* for content that fails to parse, or for a top-level value that is not   *)
(* an array: it returns the empty sequence in each of these cases, and the *)
(* stored array unchanged otherwise.                                       *)
C17_LoadListNeverFails ==
    \A repo \in Repositories :
        /\ load_list_result(World[repo.path]) = "ok"
        /\ load_list(World[repo.path])
              = IF World[repo.path].kind = "array"
                THEN World[repo.path].items ELSE <<>>

----------------------------------------------------------------------------
(* C18: after upsert(e) the collection holds e under e's ID (get_by_id     *)
(* returns an entity equal to e), its size has grown by one if the ID was  *)
(* absent and is unchanged if it was present, and a second upsert(e)       *)
(* immediately afterwards leaves the stored collection as the first left   *)
(* it.                                                                     *)
C18_UpsertInsertsOrReplaces ==
    \A repo \in Repositories :
        \A e \in Entities(repo) :
            LET id == e[repo.id_attr]
                present == get_by_id(World, repo, id) # None
                after == upsert_world(World, repo, e, "none")
            IN /\ upsert_result(World, repo, e, "none") = "ok"
               /\ get_by_id(after, repo, id) = Some(e)
               /\ Len(list_all(after, repo))
                     = Len(list_all(World, repo))
                       + (IF present THEN 0 ELSE 1)
               /\ upsert_world(after, repo, e, "none") = after

----------------------------------------------------------------------------
(* A record with the ID is in the file of the repository *)
RecordStored(self, repo, entity_id) ==
    \E i \in 1..Len(self[repo.path].items) :
        self[repo.path].items[i][repo.id_attr] = entity_id

(* C19: on any collection reached from an empty store through upsert and   *)
(* delete, delete(id) returns True exactly when a record with that ID was  *)
(* stored, and get_by_id(id) then finds nothing; it returns False exactly  *)
(* when no such record was stored, and the stored collection is then       *)
(* unchanged.                                                              *)
C19_DeleteRemovesIffStored ==
    \A repo \in Repositories :
        \A id \in EntityIds(repo) :
            LET after == delete_world(World, repo, id, "none")
            IN /\ delete_result(World, repo, id, "none") = "ok"
               /\ delete_return(World, repo, id)
                     <=> RecordStored(World, repo, id)
               /\ delete_return(World, repo, id)
                     => /\ get_by_id(after, repo, id) = None
                        /\ ~RecordStored(after, repo, id)
               /\ ~delete_return(World, repo, id) => after = World

(* The hotel file has been written and holds no record, which only a       *)
(* delete of the last hotel leaves behind, while the reservation file      *)
(* holds a record: delete returns True for its ID and False for another.   *)
C19_DeletedAndKept ==
    /\ hotels = ArrayFile(<<>>)
    /\ delete_return(World, ReservationRepository, "R1")
    /\ ~delete_return(World, ReservationRepository, "R2")
    /\ delete_world(World, ReservationRepository, "R1", "none") # World

----------------------------------------------------------------------------
(* C20: whenever an I/O failure occurs while save_list persists a          *)
(* collection (creating the parent directory, opening or writing the       *)
(* file), the calling upsert or delete reports PersistenceError to its     *)
(* caller: the failure is never swallowed and never reported as another    *)
(* kind of error.                                                          *)
C20_WriteFailureIsPersistenceError ==
    \A repo \in Repositories, fault \in Faults \ {"none"} :
        list_all_result(World, repo) = "ok"
        => /\ \A e \in Entities(repo) :
                 upsert_result(World, repo, e, fault) = "PersistenceError"
           /\ \A id \in EntityIds(repo) :
                 delete_return(World, repo, id)
                 => delete_result(World, repo, id, fault)
                       = "PersistenceError"

----------------------------------------------------------------------------
(* Interleaved repository calls *)

(* Both callers have written, and each had read before either wrote *)
BothWroteFromOldReads ==
    /\ Len(log) = 4
    /\ log[1][2] = "load"
    /\ log[2][2] = "load"
    /\ log[3][2] = "save"
    /\ log[4][2] = "save"
    /\ \A caller \in Callers : calls[caller].result \in {"ok", "True"}

LastWriter == log[Len(log)][1]

(* the change a call asked for is in the store *)
ChangeStored(self, call) ==
    IF call.op = "upsert"
    THEN get_by_id(self, HotelRepository, call.entity_id) = call.entity
    ELSE get_by_id(self, HotelRepository, call.entity_id) = None

(* the item with the ID in the list a call had read *)
AsRead(call, entity_id) ==
    LET idx == _find_index(HotelRepository, call.items, entity_id)
    IN IF idx = -1 THEN None ELSE Some(call.items[idx])

(* C21: when two upsert or delete calls on one store have both read the    *)
(* collection before either wrote it and both have returned successfully,  *)
(* the store holds exactly the list the second writer had read with the    *)
(* second writer's change; whatever the first writer changed is as the     *)
(* second writer had read it.                                              *)
C21_SecondWriterOverwrites ==
    BothWroteFromOldReads =>
        /\ list_all(World, HotelRepository)
              = changed_items(HotelRepository, calls[LastWriter])
        /\ ChangeStored(World, calls[LastWriter])
        /\ calls[OtherCaller(LastWriter)].entity_id
              # calls[LastWriter].entity_id
           => get_by_id(World, HotelRepository,
                        calls[OtherCaller(LastWriter)].entity_id)
                 = AsRead(calls[LastWriter],
                          calls[OtherCaller(LastWriter)].entity_id)

(* both calls returned successfully; the second writer's change is stored  *)
(* and the first writer's is not                                           *)
C21_LostUpdate ==
    /\ BothWroteFromOldReads
    /\ ChangeStored(World, calls[LastWriter])
    /\ ~ChangeStored(World, calls[OtherCaller(LastWriter)])

----------------------------------------------------------------------------
(* what a reservation is of: everything but its status *)
Booking(r) == [r EXCEPT !.status = "ACTIVE"]

(* C22: across service calls, a reservation stored under a reservation_id  *)
(* stays stored under it with the same hotel_id, customer_id, check_in,    *)
(* check_out and room_number; only its status may change.                  *)
C22_ReservationsKeepTheirBooking ==
    [][\A id \in AllReservationIds :
          get_reservation(World, id) # None
          => /\ get_reservation(World, id)' # None
             /\ Booking(get_reservation(World, id)[1])'
                   = Booking(get_reservation(World, id)[1])]_vars

----------------------------------------------------------------------------
(* C23: for the reservations stored for a hotel, whatever they are,        *)
(* _max_concurrent_active returns the largest number, over all days d, of  *)
(* ACTIVE reservations with check_in <= d < check_out, and 0 when there is *)
(* none: CANCELED reservations are not counted, and a reservation that     *)
(* checks out on the day another checks in is not concurrent with it.      *)
C23_PeakIsReference ==
    _max_concurrent_active(list_by_hotel(World, "H1"))
        = PeakOccupancy(World, "H1")

(* two ACTIVE reservations back to back and a CANCELED one over both:      *)
(* three stored, peak 1                                                    *)
C23_BackToBackAndCanceled ==
    LET rs == Stored(World)
    IN /\ Len(rs) = 3
       /\ \E i, j, k \in 1..3 :
             /\ rs[i].status = "ACTIVE"
             /\ rs[j].status = "ACTIVE"
             /\ rs[i].check_out = rs[j].check_in
             /\ rs[k].status = "CANCELED"
             /\ rs[k].check_in = rs[i].check_in
             /\ rs[k].check_out = rs[j].check_out
       /\ _max_concurrent_active(list_by_hotel(World, "H1")) = 1

----------------------------------------------------------------------------
(* C24: for the range of every stored reservation and every range          *)
(* b_start < b_end, in either order of the arguments, _overlaps is true    *)
(* exactly when some day lies in both half-open ranges; so two ranges back *)
(* to back do not overlap.                                                 *)
C24_OverlapIsReference ==
    LET rs == Stored(World)
    IN \A i \in 1..Len(rs), d \in DateRanges :
          /\ _overlaps(rs[i].check_in, rs[i].check_out, d[1], d[2])
                <=> SharesDay(rs[i], d[1], d[2])
          /\ _overlaps(d[1], d[2], rs[i].check_in, rs[i].check_out)
                <=> SharesDay(rs[i], d[1], d[2])

(* two ACTIVE reservations of one hotel are stored back to back, and       *)
(* _overlaps is false of them                                              *)
C24_BackToBackStored ==
    LET rs == Stored(World)
    IN \E i, j \in 1..Len(rs) :
          /\ rs[i].hotel_id = rs[j].hotel_id
          /\ rs[i].status = "ACTIVE"
          /\ rs[j].status = "ACTIVE"
          /\ rs[i].check_out = rs[j].check_in
          /\ TotalRooms(World, rs[i].hotel_id) = 1
          /\ ~_overlaps(rs[i].check_in, rs[i].check_out,
                        rs[j].check_in, rs[j].check_out)

----------------------------------------------------------------------------
(* C25: whenever reserve_room, called with check_in < check_out for a      *)
(* stored hotel and a stored customer, is rejected with BusinessRuleError  *)
(* for lack of rooms, some day d with check_in <= d < check_out is already *)
(* covered by at least total_rooms ACTIVE reservations of that hotel.      *)
C25_RejectedOnlyWhenFull ==
    \A c \in CustomerIds, h \in HotelIds, d \in DateRanges,
       rid \in GoodReservationIds, room \in GoodRoomNumbers :
        (/\ IsStoredHotel(World, h)
         /\ IsStoredCustomer(World, c)
         /\ reserve_room_result(World, c, h, d[1], d[2], rid, room)
               = "BusinessRuleError")
        => \E day \in d[1]..(d[2] - 1) :
              Cardinality(ActiveOn(World, h, day)) >= TotalRooms(World, h)

----------------------------------------------------------------------------
(* the collections as a call finds or leaves them *)
Collections(self) == <<self.hotels, self.customers, self.reservations>>

(* the call raises, and the collections after it are those before it *)
FailsWithoutTrace(result, world) ==
    result # "ok" => Collections(world) = Collections(World)

(* C26: every service call (create_*, update_*, delete_*, reserve_room,    *)
(* cancel_reservation) that ends in ValidationError, NotFoundError,        *)
(* DuplicateIdError, ConflictError, another BusinessRuleError or any other *)
(* exception leaves the hotel, customer and reservation collections        *)
(* exactly as they were before the call.                                   *)
C26_FailureLeavesNoTrace ==
    /\ \A h \in HotelIds, k \in RoomCounts :
          FailsWithoutTrace(
              create_hotel_result(World, h, "Hotel", "CDMX", k, None, None),
              create_hotel_world(World, h, "Hotel", "CDMX", k, None, None))
    /\ \A h \in HotelIds, k \in TotalRoomsUpdates :
          FailsWithoutTrace(
              update_hotel_result(World, h, None, None, k, None, None),
              update_hotel_world(World, h, None, None, k, None, None))
    /\ \A h \in HotelIds :
          FailsWithoutTrace(delete_hotel_result(World, h),
                            delete_hotel_world(World, h))
    /\ \A c \in CustomerIds, h \in HotelIds, d \in DateArgs,
          kw \in ReservationKwargs :
          FailsWithoutTrace(
              reserve_room_result(World, c, h, d[1], d[2], kw[1], kw[2]),
              reserve_room_world(World, c, h, d[1], d[2], kw[1], kw[2]))
    /\ \A rid \in KnownReservationIds :
          FailsWithoutTrace(cancel_reservation_result(World, rid),
                            cancel_reservation_world(World, rid))
    /\ \A c \in CustomerIds, e \in {"ana@example.com", "no-email"} :
          FailsWithoutTrace(
              create_customer_result(World, c, "Ana", e, None),
              create_customer_world(World, c, "Ana", e, None))
    /\ \A c \in CustomerIds, e \in {None, Some("no-email")} :
          FailsWithoutTrace(
              update_customer_result(World, c, None, e, None),
              update_customer_world(World, c, None, e, None))
    /\ \A c \in CustomerIds :
          FailsWithoutTrace(delete_customer_result(World, c),
                            delete_customer_world(World, c))

(* a store with a hotel, a customer and reservations in which calls fail   *)
(* with each of the five errors: a capacity of zero, a booked-out range, a *)
(* hotel that is held, a cancelled reservation, an ID in use, an ID not    *)
(* stored and a range that ends before it starts                           *)
C26_EveryErrorAtHand ==
    \E h \in HotelIds, c \in CustomerIds, rid \in KnownReservationIds,
       d \in DateRanges :
        /\ update_hotel_result(World, h, None, None, Some(0), None, None)
              = "ValidationError"
        /\ delete_hotel_result(World, h) = "BusinessRuleError"
        /\ reserve_room_result(World, c, h, d[1], d[2], None, None)
              = "BusinessRuleError"
        /\ reserve_room_result(World, c, h, 1, 1, None, None)
              = "ValidationError"
        /\ cancel_reservation_result(World, rid) = "ConflictError"
        /\ create_hotel_result(World, h, "Hotel", "CDMX", 1, None, None)
              = "DuplicateIdError"
        /\ \E missing \in CustomerIds :
              delete_customer_result(World, missing) = "NotFoundError"

----------------------------------------------------------------------------
(* the raw records of the file that list_all skips *)
SkippedRecords(self, repo) ==
    LET raw_list == load_list(self[repo.path])
    IN {raw_list[i] : i \in {j \in 1..Len(raw_list) :
                                ~_from_dict_ok(repo, raw_list[j])}}

(* the file is an array of records that all load, none of them one that    *)
(* list_all skipped before; and nothing but what list_all returned before, *)
(* changed by the call, is in it                                           *)
Purged(after, repo, items) ==
    /\ after[repo.path].kind = "array"
    /\ after[repo.path].items = _save_all(repo, items)
    /\ SkippedRecords(after, repo) = {}
    /\ \A i \in 1..Len(after[repo.path].items) :
          after[repo.path].items[i] \notin SkippedRecords(World, repo)

(* C27: a successful upsert, and a delete that removes a record, leave the *)
(* file as the array of the entities that had loaded, with the change      *)
(* made: no raw record that list_all skipped is in it any more, and of a   *)
(* file that did not parse or was not an array nothing but the change is   *)
(* left; a delete that finds no such ID leaves the file as it was.         *)
C27_WritesPurge ==
    /\ \A entity \in HotelEntities :
          upsert_result(World, HotelRepository, entity, "none") = "ok"
          => LET after == upsert_world(World, HotelRepository, entity, "none")
                 idx == _find_index(HotelRepository,
                                    list_all(World, HotelRepository),
                                    entity.hotel_id)
             IN /\ Purged(after, HotelRepository,
                          IF idx >= 1
                          THEN [list_all(World, HotelRepository)
                                   EXCEPT ![idx] = entity]
                          ELSE Append(list_all(World, HotelRepository),
                                      entity))
                /\ hotels.kind # "array"
                   => after.hotels.items = <<Hotel_to_dict(entity)>>
    /\ \A entity_id \in EntityIds(HotelRepository) :
          delete_result(World, HotelRepository, entity_id, "none") = "ok"
          => LET after == delete_world(World, HotelRepository, entity_id,
                                      "none")
                 items == list_all(World, HotelRepository)
                 idx == _find_index(HotelRepository, items, entity_id)
             IN IF delete_return(World, HotelRepository, entity_id)
                THEN Purged(after, HotelRepository,
                            SubSeq(items, 1, idx - 1)
                               \o SubSeq(items, idx + 1, Len(items)))
                ELSE after = World

(* the file holds a record that list_all skips next to one that it loads,  *)
(* and upsert and delete both succeed on it                                *)
C27_SkippedRecordInFile ==
    /\ hotels.kind = "array"
    /\ SkippedRecords(World, HotelRepository) # {}
    /\ list_all(World, HotelRepository) # <<>>
    /\ \E entity \in HotelEntities :
          upsert_result(World, HotelRepository, entity, "none") = "ok"
    /\ \E entity_id \in EntityIds(HotelRepository) :
          /\ delete_result(World, HotelRepository, entity_id, "none") = "ok"
          /\ delete_return(World, HotelRepository, entity_id)

----------------------------------------------------------------------------
(* the entities of a list, in order, but for the one with the ID *)
Others(repo, items, entity_id) ==
    SelectSeq(items, LAMBDA item : item[repo.id_attr] # entity_id)

(* C28: upsert(e) leaves every stored record with another ID as it was and *)
(* in the same relative order, e taking the place of the record with its   *)
(* ID or the last place; delete(id) removes at most one record and leaves  *)
(* the records with another ID as they were, in the same relative order.   *)
C28_WritesLeaveOthersAlone ==
    \A repo \in Repositories :
        LET before == list_all(World, repo)
        IN /\ \A e \in Entities(repo) :
                 LET after == list_all(upsert_world(World, repo, e, "none"),
                                       repo)
                     idx == _find_index(repo, before, e[repo.id_attr])
                 IN /\ Others(repo, after, e[repo.id_attr])
                          = Others(repo, before, e[repo.id_attr])
                    /\ _find_index(repo, after, e[repo.id_attr])
                          = IF idx = -1 THEN Len(before) + 1 ELSE idx
           /\ \A id \in EntityIds(repo) :
                 LET after == list_all(delete_world(World, repo, id, "none"),
                                       repo)
                 IN /\ Len(after) >= Len(before) - 1
                    /\ Others(repo, after, id) = Others(repo, before, id)

----------------------------------------------------------------------------
(* an ACTIVE reservation that checks out after today *)
Live(self, r) == r.status = "ACTIVE" /\ r.check_out > self.today

(* C29: in every state reached from empty stores by service calls, with    *)
(* today never moving backwards, every ACTIVE reservation whose check_out  *)
(* is strictly after today has a hotel_id and a customer_id that are both  *)
(* stored.                                                                 *)
C29_NoDanglingLiveBookings ==
    LET rs == Stored(World)
    IN \A i \in 1..Len(rs) :
          Live(World, rs[i])
          => /\ IsStoredHotel(World, rs[i].hotel_id)
             /\ IsStoredCustomer(World, rs[i].customer_id)

(* a live reservation is stored, deleting its hotel and deleting its       *)
(* customer are both refused, and next to it is a reservation that has     *)
(* ended                                                                   *)
C29_LiveAndEnded ==
    LET rs == Stored(World)
    IN \E i, j \in 1..Len(rs) :
          /\ Live(World, rs[i])
          /\ delete_hotel_result(World, rs[i].hotel_id) = "BusinessRuleError"
          /\ delete_customer_result(World, rs[i].customer_id)
                = "BusinessRuleError"
          /\ rs[j].status = "ACTIVE"
          /\ rs[j].check_out <= today

----------------------------------------------------------------------------
(* the IDs of the records of a collection file, in order *)
StoredIds(self, repo) ==
    [i \in 1..Len(load_list(self[repo.path])) |->
        load_list(self[repo.path])[i][repo.id_attr]]

(* C30: in every state reached from empty stores by service calls and      *)
(* repository upsert and delete calls made one after the other, no         *)
(* collection holds two records with the same hotel_id, customer_id or     *)
(* reservation_id respectively.                                            *)
C30_IdsAreUnique ==
    \A repo \in Repositories :
        \A i, j \in 1..Len(StoredIds(World, repo)) :
            StoredIds(World, repo)[i] = StoredIds(World, repo)[j] => i = j

(* two hotels and two reservations are stored, written by both kinds of    *)
(* call: a reservation under a generated ID and a hotel that only the      *)
(* repository is handed                                                    *)
C30_SeveralRecords ==
    /\ Len(StoredIds(World, HotelRepository)) = 2
    /\ Len(StoredIds(World, ReservationRepository)) = 2
    /\ Len(StoredIds(World, CustomerRepository)) = 1
    /\ uuid_count = 1
    /\ get_reservation(World, "RES-1") # None
    /\ get_hotel(World, "H2") # None

----------------------------------------------------------------------------
(* no room is left for the range: as many ACTIVE reservations of the hotel *)
(* overlap it as the hotel has rooms                                       *)
BookedOut(self, h, check_in, check_out) ==
    Cardinality(ActiveOverlapping(self, h, check_in, check_out))
        >= TotalRooms(self, h)

(* C31: reserve_room checks the date range first, then that the hotel is   *)
(* stored, then that the customer is stored, then that a room is left, and *)
(* reports the first check that fails: ValidationError for check_in >=     *)
(* check_out whatever else is wrong, NotFoundError for a missing hotel     *)
(* with valid dates, NotFoundError for a missing customer of a stored      *)
(* hotel even if it is booked out, BusinessRuleError for a booked-out      *)
(* hotel with a stored customer.                                           *)
C31_FirstFailedCheckIsReported ==
    \A c \in CustomerIds, h \in HotelIds, d \in Dates \X Dates,
       rid \in AnyReservationIds, room \in {None, Some(0), Some(1)} :
        LET result == reserve_room_result(World, c, h, d[1], d[2], rid, room)
        IN IF d[1] >= d[2] THEN result = "ValidationError"
           ELSE IF ~IsStoredHotel(World, h) THEN result = "NotFoundError"
           ELSE IF ~IsStoredCustomer(World, c) THEN result = "NotFoundError"
           ELSE IF BookedOut(World, h, d[1], d[2])
           THEN result = "BusinessRuleError"
           ELSE result \notin {"ValidationError", "NotFoundError",
                               "BusinessRuleError"}

(* a hotel is booked out for a range: a request for it by a customer that  *)
(* is not stored, one for a hotel that is not stored, and one with the     *)
(* dates the wrong way round are all at hand                               *)
C31_SeveralChecksFail ==
    \E c \in CustomerIds, h \in HotelIds, d \in DateRanges :
        /\ IsStoredHotel(World, h)
        /\ BookedOut(World, h, d[1], d[2])
        /\ ~IsStoredCustomer(World, c)
        /\ reserve_room_result(World, c, h, d[1], d[2], None, None)
              = "NotFoundError"
        /\ reserve_room_result(World, c, h, d[2], d[1], None, None)
              = "ValidationError"

----------------------------------------------------------------------------
(* the value a field has after an update: the one supplied, or the prior   *)
(* one when none was supplied                                              *)
Supplied(arg, prior) == IF arg = None THEN prior ELSE arg[1]

(* the entities of a collection, in order, but for the one with the ID *)
OtherEntities(self, repo, entity_id) ==
    SelectSeq(list_all(self, repo),
              LAMBDA item : item[repo.id_attr] # entity_id)

(* C32: a successful update_hotel gives the supplied fields among name,    *)
(* city, total_rooms, address, rating their new values and keeps hotel_id  *)
(* and every omitted field as get_hotel returned it before; a successful   *)
(* update_customer does the same for full_name, email, phone and           *)
(* customer_id; neither changes another stored hotel, customer or          *)
(* reservation.                                                            *)
C32_PartialUpdate ==
    /\ \A h \in HotelIds, n \in NameUpdates, k \in {None, Some(MaxRooms)},
          a \in AddressUpdates :
          update_hotel_result(World, h, n, None, k, a, None) = "ok"
          => LET after == update_hotel_world(World, h, n, None, k, a, None)
                 prior == get_hotel(World, h)[1]
             IN /\ get_hotel(after, h)
                      = Some([hotel_id |-> h,
                              name |-> Supplied(n, prior.name),
                              city |-> prior.city,
                              total_rooms |-> Supplied(k, prior.total_rooms),
                              address |-> IF a = None THEN prior.address
                                          ELSE a,
                              rating |-> prior.rating])
                /\ OtherEntities(after, HotelRepository, h)
                      = OtherEntities(World, HotelRepository, h)
                /\ list_all(after, CustomerRepository)
                      = list_all(World, CustomerRepository)
                /\ list_all(after, ReservationRepository)
                      = list_all(World, ReservationRepository)
    /\ \A c \in CustomerIds, n \in FullNameUpdates, ph \in PhoneUpdates :
          update_customer_result(World, c, n, None, ph) = "ok"
          => LET after == update_customer_world(World, c, n, None, ph)
                 prior == get_customer(World, c)[1]
             IN /\ get_customer(after, c)
                      = Some([customer_id |-> c,
                              full_name |-> Supplied(n, prior.full_name),
                              email |-> prior.email,
                              phone |-> IF ph = None THEN prior.phone
                                        ELSE ph])
                /\ OtherEntities(after, CustomerRepository, c)
                      = OtherEntities(World, CustomerRepository, c)
                /\ list_all(after, HotelRepository)
                      = list_all(World, HotelRepository)
                /\ list_all(after, ReservationRepository)
                      = list_all(World, ReservationRepository)

----------------------------------------------------------------------------
(* more ACTIVE reservations of the hotel cover some day than it has rooms *)
Overbooked(self, h) ==
    IsStoredHotel(self, h) /\ PeakOccupancy(self, h) > TotalRooms(self, h)

(* where in the log a step of a caller is, 0 if it is not there *)
LogPosition(caller, step) ==
    IF \E i \in 1..Len(log) : log[i] = <<caller, step>>
    THEN CHOOSE i \in 1..Len(log) : log[i] = <<caller, step>>
    ELSE 0

(* both reserve_room calls made their checks before either wrote *)
BothCheckedBeforeEitherSaved ==
    \A caller \in Callers :
        /\ LogPosition(caller, "check") > 0
        /\ \A other \in Callers :
              LogPosition(other, "save") > 0
              => LogPosition(caller, "check") < LogPosition(other, "save")

(* C33: a hotel ends with more overlapping ACTIVE reservations than        *)
(* total_rooms only when two reserve_room calls interleave so that both    *)
(* make their availability check before either has saved, and both         *)
(* succeed; and whenever two calls that passed their checks write          *)
(* reservations under different IDs, the second reading the reservations   *)
(* after the first has written them, both reservations are stored.         *)
C33_DoubleBookingByInterleaving ==
    /\ Overbooked(World, "H1")
       => /\ BothCheckedBeforeEitherSaved
          /\ \A caller \in Callers : calls[caller].result = "ok"
    /\ \A caller \in Callers :
          (/\ calls[caller].result = "ok"
           /\ calls[OtherCaller(caller)].result = "ok"
           /\ calls[caller].entity_id # calls[OtherCaller(caller)].entity_id
           /\ LogPosition(caller, "save")
                 < LogPosition(OtherCaller(caller), "load"))
          => /\ get_reservation(World, calls[caller].entity_id)
                   = calls[caller].entity
             /\ get_reservation(World, calls[OtherCaller(caller)].entity_id)
                   = calls[OtherCaller(caller)].entity

(* both calls have returned successfully for a hotel that had one room     *)
(* left when they made their checks, and the hotel has more overlapping    *)
(* ACTIVE reservations than rooms                                          *)
C33_DoubleBooked ==
    /\ \A caller \in Callers : calls[caller].result = "ok"
    /\ BothCheckedBeforeEitherSaved
    /\ Overbooked(World, "H1")
    /\ PeakOccupancy(World, "H1") = TotalRooms(World, "H1") + 1

----------------------------------------------------------------------------
(* C34: _overlaps gives the same answer with its two intervals exchanged,  *)
(* for every stored reservation against every pair of dates (ordered or    *)
(* not) and against every other stored reservation.                        *)
C34_OverlapIsSymmetric ==
    LET rs == Stored(World)
    IN \A i \in 1..Len(rs) :
          /\ \A d \in Dates \X Dates :
                _overlaps(rs[i].check_in, rs[i].check_out, d[1], d[2])
                   = _overlaps(d[1], d[2], rs[i].check_in, rs[i].check_out)
          /\ \A j \in 1..Len(rs) :
                _overlaps(rs[i].check_in, rs[i].check_out,
                          rs[j].check_in, rs[j].check_out)
                   = _overlaps(rs[j].check_in, rs[j].check_out,
                               rs[i].check_in, rs[i].check_out)

(* two reservations of one hotel with different ranges are stored, and     *)
(* _overlaps is true of them in either order                               *)
C34_OverlappingPairStored ==
    LET rs == Stored(World)
    IN \E i, j \in 1..Len(rs) :
          /\ rs[i].hotel_id = rs[j].hotel_id
          /\ rs[i].check_in < rs[j].check_in
          /\ _overlaps(rs[i].check_in, rs[i].check_out,
                       rs[j].check_in, rs[j].check_out)
          /\ _overlaps(rs[j].check_in, rs[j].check_out,
                       rs[i].check_in, rs[i].check_out)

----------------------------------------------------------------------------
(* C35: with the calls made one after the other, once delete_hotel has     *)
(* found the hotel and no ACTIVE reservation of it that checks out after   *)
(* today, the repository delete returns True, the call returns normally    *)
(* and the hotel is gone: the NotFoundError after the delete is never      *)
(* raised.  The same holds of delete_customer.                             *)
C35_DeletedConcurrentlyUnreachable ==
    /\ \A h \in HotelIds :
          (/\ IsStoredHotel(World, h)
           /\ delete_hotel_result(World, h) # "BusinessRuleError")
          => /\ delete_return(World, HotelRepository, h)
             /\ delete_hotel_result(World, h) = "ok"
             /\ ~IsStoredHotel(delete_hotel_world(World, h), h)
    /\ \A c \in CustomerIds :
          (/\ IsStoredCustomer(World, c)
           /\ delete_customer_result(World, c) # "BusinessRuleError")
          => /\ delete_return(World, CustomerRepository, c)
             /\ delete_customer_result(World, c) = "ok"
             /\ ~IsStoredCustomer(delete_customer_world(World, c), c)

(* two hotels are stored, and the first of them and the customer of an     *)
(* ACTIVE reservation of it that has ended can both be deleted             *)
C35_ChecksPassed ==
    LET rs == Stored(World)
        hs == list_all(World, HotelRepository)
    IN /\ Len(hs) = 2
       /\ \E i \in 1..Len(rs) :
             /\ rs[i].status = "ACTIVE"
             /\ rs[i].hotel_id = hs[1].hotel_id
             /\ delete_hotel_result(World, rs[i].hotel_id) = "ok"
             /\ delete_customer_result(World, rs[i].customer_id) = "ok"

====
